---- MODULE Spec2Model ----
(***************************************************************************)
(* webext-content-scripts: injection of scripts and stylesheets into tabs  *)
(* through one of two host capabilities (chrome.scripting, "modern", or    *)
(* chrome.tabs.*, "legacy").                                               *)
(*                                                                         *)
(* The model follows the JavaScript event loop: one action is one task of  *)
(* the loop (a call of an exported function by the extension, or the       *)
(* settlement of one host promise by the browser) together with every      *)
(* continuation the task makes runnable. Host promises settle only between *)
(* such tasks.                                                             *)
(***************************************************************************)
EXTENDS Integers, Sequences, FiniteSets, TLC

VARIABLES
    gotScripting,   \* capability probe, fixed at module load
    ops,            \* promises returned by the exported functions, in call order
    tasks,          \* activations of insertCSS / executeScript, in call order
    calls           \* host calls in submission order, with their settlement

vars == <<gotScripting, ops, tasks, calls>>

(***************************************************************************)
(* Bounds of the model.                                                    *)
(***************************************************************************)
\* longest `files` list handed to executeScript / insertCSS directly
MaxFiles == 3
\* most entries of the `where` array of injectContentScript
MaxTargets == 2
\* most bundles of the `scripts` array of injectContentScript
MaxBundles == 2
\* most sources (css and js together) over the bundles of one injectContentScript
MaxEntries == 2
\* most host calls one injectContentScript may lead to (targets times sources)
MaxCalls == 4
\* most tokens of the message of an error handed to catchTargetInjectionErrors
MaxMessage == 5
\* most word characters of the name of a native function
MaxName == 2
\* most whitespace characters around the body of a native function
MaxGap == 2
\* most results the browser answers a function execution with
MaxResults == 2
\* largest tab identifier and largest frame identifier of a target that is cast
MaxTabId == 5
MaxFrameId == 5
\* most operations under way together
MaxOps == 2
\* most tokens of a URL handed to isScriptableUrl
MaxUrl == 4
\* longest list of exclusion patterns handed to getTabsByUrl
MaxPatterns == 2
\* most tabs the browser answers a query with
MaxTabs == 2

(***************************************************************************)
(* Optional values: undefined is the empty sequence, a defined value v is  *)
(* the one-element sequence <<v>>.                                         *)
(***************************************************************************)
Undefined == <<>>
Some(v) == <<v>>
\* a ?? b
Coalesce(a, b) == IF a # Undefined THEN a ELSE b

Last(s) == s[Len(s)]

RECURSIVE SeqsUpTo(_, _)
SeqsUpTo(S, n) ==
    IF n = 0 THEN {<<>>}
    ELSE LET shorter == SeqsUpTo(S, n - 1)
         IN  shorter \cup {Append(s, x) : s \in {q \in shorter : Len(q) = n - 1}, x \in S}

(***************************************************************************)
(* Sources: a bare path string, {file: path} or {code: text}.              *)
(***************************************************************************)
StringSource(path) == [type |-> "string", value |-> path]
FileSource(path) == [type |-> "file", value |-> path]
CodeSource(text) == [type |-> "code", value |-> text]

\* 'code' in content
HasCode(content) == content.type = "code"

(***************************************************************************)
(* Errors: a name and an optional message. A message is a sequence of      *)
(* tokens: a phrase, or a single character.                                *)
(***************************************************************************)
Error(name, message) == [name |-> name, message |-> message]

Digits == {"4", "7"}
Chars == Digits \cup {".", "!"}

\* elements of the regular expression `targetErrors`
Lit(s) == [re |-> "lit", s |-> s]
DigitsPlus == [re |-> "d+", s |-> ""]
AnyChar == [re |-> ".", s |-> ""]

\* does the pattern (a sequence of elements, anchored at both ends) match msg
RECURSIVE Matches(_, _)
Matches(pattern, msg) ==
    IF pattern = <<>> THEN msg = <<>>
    ELSE IF msg = <<>> THEN FALSE
    ELSE LET p == Head(pattern)
         IN  CASE p.re = "lit" -> Head(msg) = p.s /\ Matches(Tail(pattern), Tail(msg))
               [] p.re = "."   -> Head(msg) \in Chars /\ Matches(Tail(pattern), Tail(msg))
               [] p.re = "d+"  -> /\ Head(msg) \in Digits
                                  /\ \/ Matches(Tail(pattern), Tail(msg))
                                     \/ Matches(pattern, Tail(msg))

targetErrors ==
    { <<Lit("No frame with id "), DigitsPlus, Lit(" in tab "), DigitsPlus, AnyChar>>,
      <<Lit("No tab with id: "), DigitsPlus, AnyChar>>,
      <<Lit("The tab was closed"), AnyChar>>,
      <<Lit("The frame was removed"), AnyChar>> }

\* targetErrors.test(error?.message): an absent message is tested as the text "undefined"
targetErrorsTest(error) ==
    LET text == IF error = Undefined \/ error[1].message = Undefined
                THEN <<"undefined">>
                ELSE error[1].message[1]
    IN  \E pattern \in targetErrors : Matches(pattern, text)

(***************************************************************************)
(* Targets and file lists.                                                 *)
(***************************************************************************)
\* number | Target
TabTarget(tabId) == [type |-> "number", tabId |-> tabId, frameId |-> Undefined]
FrameTarget(tabId, frameId) == [type |-> "object", tabId |-> tabId, frameId |-> Some(frameId)]

castTarget(target) ==
    IF target.type = "object"
    THEN [tabId |-> target.tabId, frameId |-> target.frameId]
    ELSE [tabId |-> target.tabId, frameId |-> Some(0)]

\* a cast that broadcasts to all frames whatever the target
castAllFramesTargetBroadcast(target) ==
    [tabId |-> target.tabId, frameId |-> target.frameId, allFrames |-> TRUE]

castAllFramesTarget(target) ==
    IF target.type = "object"
    THEN [tabId |-> target.tabId, frameId |-> target.frameId, allFrames |-> FALSE]
    ELSE [tabId |-> target.tabId, frameId |-> Undefined, allFrames |-> TRUE]

\* MaybeArray<X>: a single value or an array of values
Single(x) == [isArray |-> FALSE, value |-> <<x>>]
Array(xs) == [isArray |-> TRUE, value |-> xs]

castArray(possibleArray) ==
    IF possibleArray.isArray THEN possibleArray.value ELSE <<possibleArray.value[1]>>

\* seen.includes(file)
Includes(seen, file) == \E j \in 1..Len(seen) : seen[j] = file

\* normalizeFiles without the test of the tracking list: nothing is dropped
RECURSIVE normalizeFilesKeepAll(_, _)
normalizeFilesKeepAll(files, seen) ==
    IF files = <<>> THEN [files |-> <<>>, seen |-> seen]
    ELSE LET content == IF Head(files).type = "string"
                        THEN FileSource(Head(files).value)
                        ELSE Head(files)
             rest == normalizeFilesKeepAll(Tail(files), seen)
         IN  [files |-> <<content>> \o rest.files, seen |-> rest.seen]

\* normalizeFiles without the exemption of inline code: its text is tracked
\* like a path
RECURSIVE normalizeFilesByText(_, _)
normalizeFilesByText(files, seen) ==
    IF files = <<>> THEN [files |-> <<>>, seen |-> seen]
    ELSE LET content == IF Head(files).type = "string"
                        THEN FileSource(Head(files).value)
                        ELSE Head(files)
             keep == ~Includes(seen, content.value)
             rest == normalizeFilesByText(Tail(files),
                        IF keep THEN Append(seen, content.value) ELSE seen)
         IN  [files |-> IF keep THEN <<content>> \o rest.files ELSE rest.files,
              seen |-> rest.seen]

\* The result of normalizeFiles and the tracking list as the call leaves it.
RECURSIVE normalizeFiles(_, _)
normalizeFiles(files, seen) ==
    IF files = <<>> THEN [files |-> <<>>, seen |-> seen]
    ELSE LET content == IF Head(files).type = "string"
                        THEN FileSource(Head(files).value)
                        ELSE Head(files)
             keep == HasCode(content) \/ ~Includes(seen, content.value)
             seen1 == IF ~HasCode(content) /\ ~Includes(seen, content.value)
                      THEN Append(seen, content.value)
                      ELSE seen
             rest == normalizeFiles(Tail(files), seen1)
         IN  [files |-> IF keep THEN <<content>> \o rest.files ELSE rest.files,
              seen |-> rest.seen]

arrayOrUndefined(value) == IF value = Undefined THEN Undefined ELSE Some(<<value[1]>>)

\* InjectionDetails
Details(tabId, frameId, files, allFrames, matchAboutBlank, runAt) ==
    [tabId |-> tabId, frameId |-> frameId, files |-> files, allFrames |-> allFrames,
     matchAboutBlank |-> matchAboutBlank, runAt |-> runAt]

(***************************************************************************)
(* Host calls. One record per call handed to the browser: the arguments    *)
(* the code passes (absent ones Undefined), the activation that made the   *)
(* call, and the state of the promise the browser returned.                *)
(***************************************************************************)
HostCall(api, t, tabId) ==
    [api |-> api, task |-> t, tabId |-> tabId,
     frameIds |-> Undefined, frameId |-> Undefined, allFrames |-> Undefined,
     matchAboutBlank |-> Undefined, runAt |-> Undefined,
     files |-> Undefined, css |-> Undefined, file |-> Undefined, code |-> Undefined,
     state |-> "pending", error |-> Undefined]

\* chrome.scripting.insertCSS({target, files, css})
scriptingInsertCSS(t, d, content) ==
    [HostCall("scripting.insertCSS", t, d.tabId) EXCEPT
        !.frameIds = arrayOrUndefined(d.frameId),
        !.allFrames = IF d.frameId = Undefined THEN d.allFrames ELSE Undefined,
        !.files = IF content.type = "file" THEN Some(<<content.value>>) ELSE Undefined,
        !.css = IF HasCode(content) THEN Some(content.value) ELSE Undefined]

\* tabs.insertCSS with runAt passed on as the caller gave it
tabsInsertCSSRunAtAsGiven(t, d, content) ==
    [HostCall("tabs.insertCSS", t, d.tabId) EXCEPT
        !.file = IF content.type = "file" THEN Some(content.value) ELSE Undefined,
        !.code = IF HasCode(content) THEN Some(content.value) ELSE Undefined,
        !.matchAboutBlank = d.matchAboutBlank,
        !.allFrames = d.allFrames,
        !.frameId = d.frameId,
        !.runAt = d.runAt]

\* chromeP.tabs.insertCSS(tabId, {...content, matchAboutBlank, allFrames, frameId, runAt})
tabsInsertCSS(t, d, content) ==
    [HostCall("tabs.insertCSS", t, d.tabId) EXCEPT
        !.file = IF content.type = "file" THEN Some(content.value) ELSE Undefined,
        !.code = IF HasCode(content) THEN Some(content.value) ELSE Undefined,
        !.matchAboutBlank = d.matchAboutBlank,
        !.allFrames = d.allFrames,
        !.frameId = d.frameId,
        !.runAt = Coalesce(d.runAt, Some("document_start"))]

\* chrome.scripting.executeScript with allFrames passed on as the caller gave it
scriptingExecuteScriptAllFramesAsGiven(t, d, normalizedFiles) ==
    [HostCall("scripting.executeScript", t, d.tabId) EXCEPT
        !.frameIds = arrayOrUndefined(d.frameId),
        !.allFrames = d.allFrames,
        !.files = Some([j \in 1..Len(normalizedFiles) |-> normalizedFiles[j].value])]

\* chrome.scripting.executeScript({target, files})
scriptingExecuteScript(t, d, normalizedFiles) ==
    [HostCall("scripting.executeScript", t, d.tabId) EXCEPT
        !.frameIds = arrayOrUndefined(d.frameId),
        !.allFrames = IF d.frameId = Undefined THEN d.allFrames ELSE Undefined,
        !.files = Some([j \in 1..Len(normalizedFiles) |-> normalizedFiles[j].value])]

\* chromeP.tabs.executeScript(tabId, {...content, matchAboutBlank, allFrames, frameId, runAt})
tabsExecuteScript(t, d, content) ==
    [HostCall("tabs.executeScript", t, d.tabId) EXCEPT
        !.file = IF content.type = "file" THEN Some(content.value) ELSE Undefined,
        !.code = IF HasCode(content) THEN Some(content.value) ELSE Undefined,
        !.matchAboutBlank = d.matchAboutBlank,
        !.allFrames = d.allFrames,
        !.frameId = d.frameId,
        !.runAt = d.runAt]

(***************************************************************************)
(* Promises. An outcome is the state of a promise as an observer sees it.  *)
(***************************************************************************)
Pending == [state |-> "pending", error |-> Undefined]
Fulfilled == [state |-> "fulfilled", error |-> Undefined]
Rejected(error) == [state |-> "rejected", error |-> error]

Outcome(p) ==
    IF p.state \in {"fulfilled", "rejected"}
    THEN [state |-> p.state, error |-> p.error]
    ELSE Pending

\* Promise.all over promises whose outcomes are given, looked at after every
\* single settlement: it rejects with the first rejection it meets, fulfils
\* once every input has fulfilled.
\* Promise.allSettled: fulfilled once no input is pending
PromiseAllSettled(outcomes) ==
    IF \A j \in 1..Len(outcomes) : outcomes[j].state # "pending" THEN Fulfilled ELSE Pending

PromiseAll(outcomes) ==
    LET rejected == {j \in 1..Len(outcomes) : outcomes[j].state = "rejected"}
    IN  IF rejected # {}
        THEN Rejected(outcomes[CHOOSE j \in rejected : \A h \in rejected : j <= h].error)
        ELSE IF \A j \in 1..Len(outcomes) : outcomes[j].state = "fulfilled"
        THEN Fulfilled
        ELSE Pending

\* a classifier that lets no rejection through
catchTargetInjectionErrorsAll(promise) ==
    IF promise.state = "rejected" THEN Fulfilled ELSE promise

catchTargetInjectionErrors(promise) ==
    IF promise.state = "rejected"
    THEN IF ~targetErrorsTest(promise.error) THEN promise ELSE Fulfilled
    ELSE promise

(***************************************************************************)
(* Activations of insertCSS and executeScript. w is the pair of the        *)
(* activations and the host calls so far; an operation returns w as it     *)
(* leaves it at its first suspension. seen is the tracking list of the     *)
(* injectContentScriptInSpecificTarget that is running, if one is.         *)
(*   i:     the entry of normalizedFiles that is handed to the browser     *)
(*          next                                                           *)
(*   state: "awaitLast"  suspended in the legacy loop on executions.at(-1) *)
(*          "awaitAll"   suspended on the combined promise                 *)
(*          "fulfilled" / "rejected"  the returned promise has settled     *)
(***************************************************************************)
World(ts, cs, seen) == [tasks |-> ts, calls |-> cs, seen |-> seen]

Owner(op, target, bundle) == [op |-> op, target |-> target, bundle |-> bundle]

\* InjectionOptions
Options(ignoreTargetErrors) == [ignoreTargetErrors |-> ignoreTargetErrors]

\* if (value)
Truthy(value) == value = Some(TRUE)

Activation(fn, owner, d, options, normalizedFiles) ==
    [fn |-> fn, op |-> owner.op, target |-> owner.target, bundle |-> owner.bundle,
     details |-> d, ignoreTargetErrors |-> options.ignoreTargetErrors,
     normalizedFiles |-> normalizedFiles, executions |-> <<>>, i |-> 1,
     state |-> "awaitAll", error |-> Undefined]

Executions(w, t) ==
    [j \in 1..Len(w.tasks[t].executions) |-> Outcome(w.calls[w.tasks[t].executions[j]])]

\* The await of the combined promise, through the classifier when
\* ignoreTargetErrors is set.
AwaitAll(w, t) ==
    LET task == w.tasks[t]
        all == PromiseAll(Executions(w, t))
        awaited == IF Truthy(task.ignoreTargetErrors)
                   THEN catchTargetInjectionErrors(all)
                   ELSE all
    IN  IF task.state # "awaitAll" \/ awaited.state = "pending" THEN w
        ELSE [w EXCEPT !.tasks[t].state = awaited.state, !.tasks[t].error = awaited.error]

\* insertCSS handing the modern capability every source in one call
insertCSSBatch(w, owner, d, options) ==
    LET t == Len(w.tasks) + 1
        normalizedFiles == normalizeFiles(d.files, <<>>).files
        n == IF gotScripting /\ normalizedFiles # <<>> THEN 1 ELSE Len(normalizedFiles)
        insertion(content) ==
            IF gotScripting
            THEN [scriptingInsertCSS(t, d, content) EXCEPT
                    !.files = Some([j \in 1..Len(normalizedFiles) |-> normalizedFiles[j].value])]
            ELSE tabsInsertCSS(t, d, content)
        task == [Activation("insertCSS", owner, d, options, normalizedFiles) EXCEPT
                    !.executions = [j \in 1..n |-> Len(w.calls) + j],
                    !.i = Len(normalizedFiles) + 1]
    IN  [w EXCEPT !.tasks = Append(@, task),
                  !.calls = @ \o [j \in 1..n |-> insertion(normalizedFiles[j])]]

insertCSS(w, owner, d, options) ==
    LET t == Len(w.tasks) + 1
        normalizedFiles == normalizeFiles(d.files, <<>>).files
        n == Len(normalizedFiles)
        insertion(content) == IF gotScripting
                              THEN scriptingInsertCSS(t, d, content)
                              ELSE tabsInsertCSS(t, d, content)
        task == [Activation("insertCSS", owner, d, options, normalizedFiles) EXCEPT
                    !.executions = [j \in 1..n |-> Len(w.calls) + j],
                    !.i = n + 1]
    IN  [w EXCEPT !.tasks = Append(@, task),
                  !.calls = @ \o [j \in 1..n |-> insertion(normalizedFiles[j])]]

UnsupportedCode ==
    Error("Error", Some(<<"chrome.scripting does not support injecting strings of code">>))

\* assertNoCode looking at the first entry alone
assertNoCodeFirst(files) == ~(files # <<>> /\ HasCode(files[1]))

\* TRUE when the assertion passes
assertNoCode(files) == ~\E j \in 1..Len(files) : HasCode(files[j])

\* the legacy loop as a .map(): no entry waits
RECURSIVE executeScriptLoopMap(_, _, _)
executeScriptLoopMap(w, t, resumed) ==
    LET task == w.tasks[t]
    IN  IF task.i > Len(task.normalizedFiles)
        THEN [w EXCEPT !.tasks[t].state = "awaitAll"]
        ELSE executeScriptLoopMap(
                [w EXCEPT !.calls = Append(@, tabsExecuteScript(t, task.details,
                                                                 task.normalizedFiles[task.i])),
                          !.tasks[t].executions = Append(@, Len(w.calls) + 1),
                          !.tasks[t].i = @ + 1],
                t, FALSE)

\* the legacy loop ending at the first inline-code entry instead of waiting
RECURSIVE executeScriptLoopStopAtCode(_, _, _)
executeScriptLoopStopAtCode(w, t, resumed) ==
    LET task == w.tasks[t]
    IN  IF task.i > Len(task.normalizedFiles) \/ HasCode(task.normalizedFiles[task.i])
        THEN [w EXCEPT !.tasks[t].state = "awaitAll"]
        ELSE executeScriptLoopStopAtCode(
                [w EXCEPT !.calls = Append(@, tabsExecuteScript(t, task.details,
                                                                 task.normalizedFiles[task.i])),
                          !.tasks[t].executions = Append(@, Len(w.calls) + 1),
                          !.tasks[t].i = @ + 1],
                t, FALSE)

\* The legacy loop of executeScript from entry i on, up to its next
\* suspension; resumed says that the await in front of entry i has completed.
RECURSIVE executeScriptLoop(_, _, _)
executeScriptLoop(w, t, resumed) ==
    LET task == w.tasks[t]
    IN  IF task.i > Len(task.normalizedFiles)
        THEN [w EXCEPT !.tasks[t].state = "awaitAll"]
        ELSE LET content == task.normalizedFiles[task.i]
             IN  IF HasCode(content) /\ ~resumed
                 THEN [w EXCEPT !.tasks[t].state = "awaitLast"]
                 ELSE executeScriptLoop(
                        [w EXCEPT !.calls = Append(@, tabsExecuteScript(t, task.details, content)),
                                  !.tasks[t].executions = Append(@, Len(w.calls) + 1),
                                  !.tasks[t].i = @ + 1],
                        t, FALSE)

executeScript(w, owner, d, options) ==
    LET t == Len(w.tasks) + 1
        normalizedFiles == normalizeFiles(d.files, <<>>).files
        task == Activation("executeScript", owner, d, options, normalizedFiles)
    IN  IF gotScripting
        THEN IF ~assertNoCode(normalizedFiles)
             THEN [w EXCEPT !.tasks = Append(@, [task EXCEPT !.state = "rejected",
                                                             !.error = Some(UnsupportedCode)])]
             ELSE [w EXCEPT !.tasks = Append(@, [task EXCEPT !.executions = <<Len(w.calls) + 1>>,
                                                             !.i = Len(normalizedFiles) + 1]),
                            !.calls = Append(@, scriptingExecuteScript(t, d, normalizedFiles))]
        ELSE executeScriptLoop([w EXCEPT !.tasks = Append(@, task)], t, FALSE)

\* an activation that hears of fulfilments only: the legacy wait is never
\* resumed by a rejection
ContinueOnFulfilment(w, t) ==
    LET task == w.tasks[t]
        last == IF task.executions = <<>> THEN Fulfilled
                ELSE Outcome(w.calls[Last(task.executions)])
    IN  CASE task.state = "awaitLast" /\ last.state = "fulfilled" ->
                AwaitAll(executeScriptLoop(w, t, TRUE), t)
          [] task.state = "awaitAll" -> AwaitAll(w, t)
          [] OTHER -> w

\* an activation whose legacy wait goes on whatever the outcome of the call
\* it waited for
ContinuePastRejection(w, t) ==
    LET task == w.tasks[t]
        last == IF task.executions = <<>> THEN Fulfilled
                ELSE Outcome(w.calls[Last(task.executions)])
    IN  CASE task.state = "awaitLast" /\ last.state # "pending" ->
                AwaitAll(executeScriptLoop(w, t, TRUE), t)
          [] task.state = "awaitAll" -> AwaitAll(w, t)
          [] OTHER -> w

\* The activation t takes its turn: it goes on if what it awaits has settled.
Continue(w, t) ==
    LET task == w.tasks[t]
        last == IF task.executions = <<>> THEN Fulfilled
                ELSE Outcome(w.calls[Last(task.executions)])
    IN  CASE task.state = "awaitLast" /\ last.state = "fulfilled" ->
                AwaitAll(executeScriptLoop(w, t, TRUE), t)
          [] task.state = "awaitLast" /\ last.state = "rejected" ->
                [w EXCEPT !.tasks[t].state = "rejected", !.tasks[t].error = last.error]
          [] task.state = "awaitAll" -> AwaitAll(w, t)
          [] OTHER -> w

\* The microtasks after the synchronous part of a call: the activations from
\* t on take their turn in the order in which they were suspended.
RECURSIVE ContinueFrom(_, _)
ContinueFrom(w, t) ==
    IF t > Len(w.tasks) THEN w ELSE ContinueFrom(Continue(w, t), t + 1)

(***************************************************************************)
(* injectContentScript.                                                    *)
(***************************************************************************)
\* ContentScript, with the manifest's spellings of its options
ContentScript(css, js) ==
    [css |-> css, js |-> js,
     allFrames |-> Undefined, all_frames |-> Undefined,
     matchAboutBlank |-> Undefined, match_about_blank |-> Undefined,
     runAt |-> Undefined, run_at |-> Undefined]

\* bundleFiles with normalizeFiles left to its default tracking list
bundleFilesOwnSeen(script, seen) ==
    LET css == normalizeFiles(Coalesce(script.css, Some(<<>>))[1], <<>>)
        js == normalizeFiles(Coalesce(script.js, Some(<<>>))[1], <<>>)
    IN  [css |-> css.files, js |-> js.files, seen |-> seen]

\* bundleFiles that normalizes the js list before the css list
bundleFilesJsFirst(script, seen) ==
    LET js == normalizeFiles(Coalesce(script.js, Some(<<>>))[1], seen)
        css == normalizeFiles(Coalesce(script.css, Some(<<>>))[1], js.seen)
    IN  [css |-> css.files, js |-> js.files, seen |-> css.seen]

\* The lists of one bundle as normalizeFiles leaves them, css before js,
\* and the tracking list after them.
bundleFiles(script, seen) ==
    LET css == normalizeFiles(Coalesce(script.css, Some(<<>>))[1], seen)
        js == normalizeFiles(Coalesce(script.js, Some(<<>>))[1], css.seen)
    IN  [css |-> css.files, js |-> js.files, seen |-> js.seen]

\* the flatMap letting the bundle's allFrames option override the target's
RECURSIVE injectBundlesOwnAllFrames(_, _, _, _, _, _, _)
injectBundlesOwnAllFrames(w, op, j, target, bundles, b, options) ==
    IF b > Len(bundles) THEN w
    ELSE LET script == bundles[b]
             files == bundleFiles(script, w.seen)
             details(list) ==
                Details(target.tabId, target.frameId, list,
                        Coalesce(Coalesce(script.allFrames, script.all_frames),
                                 Some(target.allFrames)),
                        Coalesce(script.matchAboutBlank, script.match_about_blank),
                        Coalesce(script.runAt, script.run_at))
             w1 == IF Len(files.css) > 0
                   THEN insertCSS(w, Owner(op, j, b), details(files.css), options)
                   ELSE w
             w2 == IF Len(files.js) > 0
                   THEN executeScript(w1, Owner(op, j, b), details(files.js), options)
                   ELSE w1
         IN  injectBundlesOwnAllFrames([w2 EXCEPT !.seen = files.seen],
                                       op, j, target, bundles, b + 1, options)

\* the flatMap calling insertCSS and executeScript whatever the lists hold
RECURSIVE injectBundlesAlways(_, _, _, _, _, _, _)
injectBundlesAlways(w, op, j, target, bundles, b, options) ==
    IF b > Len(bundles) THEN w
    ELSE LET script == bundles[b]
             files == bundleFiles(script, w.seen)
             details(list) ==
                Details(target.tabId, target.frameId, list, Some(target.allFrames),
                        Coalesce(script.matchAboutBlank, script.match_about_blank),
                        Coalesce(script.runAt, script.run_at))
             w1 == insertCSS(w, Owner(op, j, b), details(files.css), options)
             w2 == executeScript(w1, Owner(op, j, b), details(files.js), options)
         IN  injectBundlesAlways([w2 EXCEPT !.seen = files.seen],
                                 op, j, target, bundles, b + 1, options)

\* The flatMap over the bundles from bundle b on.
RECURSIVE injectBundles(_, _, _, _, _, _, _)
injectBundles(w, op, j, target, bundles, b, options) ==
    IF b > Len(bundles) THEN w
    ELSE LET script == bundles[b]
             files == bundleFiles(script, w.seen)
             details(list) ==
                Details(target.tabId, target.frameId, list, Some(target.allFrames),
                        Coalesce(script.matchAboutBlank, script.match_about_blank),
                        Coalesce(script.runAt, script.run_at))
             w1 == IF Len(files.css) > 0
                   THEN insertCSS(w, Owner(op, j, b), details(files.css), options)
                   ELSE w
             w2 == IF Len(files.js) > 0
                   THEN executeScript(w1, Owner(op, j, b), details(files.js), options)
                   ELSE w1
         IN  injectBundles([w2 EXCEPT !.seen = files.seen],
                           op, j, target, bundles, b + 1, options)

\* the paths the activations so far have normalized
RECURSIVE SeenSoFar(_)
SeenSoFar(ts) ==
    IF ts = <<>> THEN <<>>
    ELSE SeenSoFar(SubSeq(ts, 1, Len(ts) - 1))
            \o [i \in 1..Len(Last(ts).normalizedFiles) |-> Last(ts).normalizedFiles[i].value]

\* one tracking list kept by the module over all calls
injectContentScriptInSpecificTargetModuleSeen(w, op, j, target, scripts, options) ==
    injectBundles([w EXCEPT !.seen = SeenSoFar(w.tasks)],
                  op, j, target, castArray(scripts), 1, options)

\* one tracking list for the whole call instead of one per target
injectContentScriptInSpecificTargetSharedSeen(w, op, j, target, scripts, options) ==
    injectBundles(w, op, j, target, castArray(scripts), 1, options)

injectContentScriptInSpecificTarget(w, op, j, target, scripts, options) ==
    injectBundles([w EXCEPT !.seen = <<>>], op, j, target, castArray(scripts), 1, options)

\* the targets one after the other: the call starts the first target alone
injectTargetsSerial(w, op, targets, j, scripts, options) ==
    IF j > Len(targets) THEN w
    ELSE injectContentScriptInSpecificTarget(
            w, op, j, castAllFramesTarget(targets[j]), scripts, options)

\* targets.map(...) from target j on
RECURSIVE injectTargets(_, _, _, _, _, _)
injectTargets(w, op, targets, j, scripts, options) ==
    IF j > Len(targets) THEN w
    ELSE injectTargets(
            injectContentScriptInSpecificTarget(
                w, op, j, castAllFramesTarget(targets[j]), scripts, options),
            op, targets, j + 1, scripts, options)

injectContentScript(w, op, where, scripts, options) ==
    injectTargets(w, op, castArray(where), 1, scripts, options)

(***************************************************************************)
(* executeFunction. A function is known by the text String(function_)      *)
(* gives, a sequence of tokens: a phrase, one word character, or one       *)
(* whitespace character.                                                   *)
(***************************************************************************)
WordChars == {"D", "f"}
Spaces == {" ", "\n"}

\* elements of the regular expression `nativeFunction`
WordPlus == [re |-> "w+", s |-> ""]
SpacePlus == [re |-> "s+", s |-> ""]

\* does the pattern match at the start of the text (no anchor at the end)
RECURSIVE MatchesStart(_, _)
MatchesStart(pattern, text) ==
    IF pattern = <<>> THEN TRUE
    ELSE IF text = <<>> THEN FALSE
    ELSE LET p == Head(pattern)
             class == IF p.re = "w+" THEN WordChars ELSE Spaces
         IN  IF p.re = "lit"
             THEN Head(text) = p.s /\ MatchesStart(Tail(pattern), Tail(text))
             ELSE /\ Head(text) \in class
                  /\ \/ MatchesStart(Tail(pattern), Tail(text))
                     \/ MatchesStart(pattern, Tail(text))

nativeFunction ==
    <<Lit("function "), WordPlus, Lit("() {"), SpacePlus, Lit("[native code]"), SpacePlus,
      Lit("}")>>

NativeFunctionError ==
    Error("TypeError",
          Some(<<"Native functions need to be wrapped first, like executeFunction(1, () => alert(1))">>))

\* JSON.stringify of the arguments, a list of strings
RECURSIVE StringifyItems(_)
StringifyItems(arguments) ==
    IF arguments = <<>> THEN <<>>
    ELSE <<"\"", Head(arguments), "\"">>
         \o (IF Tail(arguments) = <<>> THEN <<>> ELSE <<",">>)
         \o StringifyItems(Tail(arguments))

JSONStringify(arguments) == <<"[">> \o StringifyItems(arguments) \o <<"]">>

\* a host call of executeFunction: with the function and its arguments, and
\* with the list of results the browser answers with
FunctionCall(api, tabId) ==
    [func |-> Undefined, args |-> Undefined, result |-> Undefined] @@ HostCall(api, 0, tabId)

\* executeFunction up to its await: the error it throws, or the host call it makes
executeFunction(target, function, arguments) ==
    IF MatchesStart(nativeFunction, function.text)
    THEN [thrown |-> Some(NativeFunctionError), call |-> Undefined]
    ELSE LET t == castTarget(target)
         IN  IF gotScripting
             THEN [thrown |-> Undefined,
                   call |-> Some([FunctionCall("scripting.executeScript", t.tabId) EXCEPT
                                    !.frameIds = Some(<<t.frameId[1]>>),
                                    !.func = Some(function),
                                    !.args = Some(arguments)])]
             ELSE [thrown |-> Undefined,
                   call |-> Some([FunctionCall("tabs.executeScript", t.tabId) EXCEPT
                                    !.code = Some(<<"(">> \o function.text \o <<")(...">>
                                                  \o JSONStringify(arguments) \o <<")">>),
                                    !.matchAboutBlank = Some(TRUE),
                                    !.frameId = t.frameId])]

\* executeFunction returning what the last frame answered
executeFunctionReturnLast(call) ==
    LET list == call.result[1]
    IN  IF list = <<>> THEN Undefined
        ELSE IF call.api = "scripting.executeScript" THEN Last(list).result
        ELSE Last(list)

\* what executeFunction returns once its host call has fulfilled: the
\* result of the first injection ([injection] / injection?.result), or the
\* first result ([result])
executeFunctionReturn(call) ==
    LET list == call.result[1]
    IN  IF list = <<>> THEN Undefined
        ELSE IF call.api = "scripting.executeScript" THEN Head(list).result
        ELSE Head(list)

(***************************************************************************)
(* canAccessTab.                                                           *)
(***************************************************************************)
\* () => true
TrueFunction == [native |-> FALSE, text |-> <<"() => ", "true">>]

\* canAccessTab up to its await: executeFunction(castTarget(target), () => true)
canAccessTab(target) ==
    LET t == castTarget(target)
    IN  executeFunction(FrameTarget(t.tabId, t.frameId[1]), TrueFunction, <<>>)

\* canAccessTab without its try: a failure of executeFunction is passed on
canAccessTabReturnUncaught(awaited) ==
    IF awaited.state = "rejected" THEN awaited ELSE [awaited EXCEPT !.value = Some(TRUE)]

\* what canAccessTab settles with once executeFunction has settled as
\* `awaited`: true, or false from the catch
canAccessTabReturn(awaited) ==
    IF awaited.state = "rejected"
    THEN [awaited EXCEPT !.state = "fulfilled", !.error = Undefined, !.value = Some(FALSE)]
    ELSE [awaited EXCEPT !.value = Some(TRUE)]

(***************************************************************************)
(* getTabsByUrl. A URL is a scheme and a host; a match pattern names a     *)
(* scheme and a host, or "*" for any (the path of the patterns is always   *)
(* the wildcard).                                                          *)
(***************************************************************************)
Url(scheme, host) == [scheme |-> scheme, host |-> host]
Pattern(scheme, host) == [scheme |-> scheme, host |-> host]

\* chrome.tabs.Tab: id and url are optional
Tab(id, url) == [id |-> id, url |-> url]

\* patternToRegex(...patterns).test(url); no pattern at all matches nothing
PatternsTest(patterns, url) ==
    \E i \in 1..Len(patterns) :
        /\ patterns[i].scheme \in {"*", url.scheme}
        /\ patterns[i].host \in {"*", url.host}

\* chromeP.tabs.query({url: matches})
TabsQuery(matches) ==
    [api |-> "tabs.query", url |-> matches, state |-> "pending", error |-> Undefined,
     result |-> Undefined]

\* the filter without the exclusion patterns
KeepsTabAnyUrl(tab, excludeMatches) ==
    /\ tab.id # Undefined /\ tab.id[1] # 0
    /\ tab.url # Undefined

\* the filter of getTabsByUrl: tab.id && tab.url && (exclude ? !exclude.test(tab.url) : true)
KeepsTab(tab, excludeMatches) ==
    /\ tab.id # Undefined /\ tab.id[1] # 0
    /\ tab.url # Undefined
    /\ IF excludeMatches # Undefined THEN ~PatternsTest(excludeMatches[1], tab.url[1]) ELSE TRUE

\* tabs.filter(...).map(tab => tab.id)
RECURSIVE getTabsByUrlReturn(_, _)
getTabsByUrlReturn(tabs, excludeMatches) ==
    IF tabs = <<>> THEN <<>>
    ELSE (IF KeepsTab(Head(tabs), excludeMatches) THEN <<Head(tabs).id[1]>> ELSE <<>>)
         \o getTabsByUrlReturn(Tail(tabs), excludeMatches)

\* getTabsByUrl with the test of the inclusion list left out
getTabsByUrlAlwaysQuery(matches, excludeMatches) ==
    [returned |-> Undefined, call |-> Some(TabsQuery(matches))]

\* getTabsByUrl up to its await: the list it returns at once, or the query it makes
getTabsByUrl(matches, excludeMatches) ==
    IF Len(matches) = 0
    THEN [returned |-> Some(<<>>), call |-> Undefined]
    ELSE [returned |-> Undefined, call |-> Some(TabsQuery(matches))]

(***************************************************************************)
(* isScriptableUrl. The text of a URL is a sequence of tokens: "http",     *)
(* "s", "://", an origin (with or without a path), or another piece of     *)
(* text. No token is the beginning of another.                             *)
(***************************************************************************)
blockedPrefixes ==
    {"chrome.google.com/webstore", "chromewebstore.google.com",
     "accounts-static.cdn.mozilla.net", "accounts.firefox.com", "addons.cdn.mozilla.net",
     "addons.mozilla.org", "api.accounts.firefox.com", "content.cdn.mozilla.net",
     "discovery.addons.mozilla.org", "input.mozilla.org", "install.mozilla.org",
     "oauth.accounts.firefox.com", "profile.accounts.firefox.com", "support.mozilla.org",
     "sync.services.mozilla.com", "testpilot.firefox.com"}

\* text.startsWith(token)
StartsWith(text, token) == text # <<>> /\ Head(text) = token

\* a replacement that knows the http scheme only
StripSchemeInsecureOnly(text) ==
    IF Len(text) >= 2 /\ text[1] = "http" /\ text[2] = "://"
    THEN SubSeq(text, 3, Len(text))
    ELSE text

\* url.replace(/^https?:\/\//, '')
StripScheme(text) ==
    IF Len(text) >= 2 /\ text[1] = "http" /\ text[2] = "://"
    THEN SubSeq(text, 3, Len(text))
    ELSE IF Len(text) >= 3 /\ text[1] = "http" /\ text[2] = "s" /\ text[3] = "://"
    THEN SubSeq(text, 4, Len(text))
    ELSE text

isScriptableUrl(url) ==
    IF url = Undefined \/ ~StartsWith(url[1], "http")
    THEN FALSE
    ELSE LET cleanUrl == StripScheme(url[1])
         IN  \A blocked \in blockedPrefixes : ~StartsWith(cleanUrl, blocked)

(***************************************************************************)
(* The promises the exported functions return. For injectContentScript,    *)
(* targets holds the promise of each injectContentScriptInSpecificTarget.  *)
(***************************************************************************)
Operation(fn, args, nTargets) ==
    [fn |-> fn, args |-> args, state |-> "pending", error |-> Undefined,
     targets |-> [j \in 1..nTargets |-> Pending]]

TasksOf(ts, o, j) == SelectSeq(ts, LAMBDA task : task.op = o /\ task.target = j)

OutcomesOf(ts) == [h \in 1..Len(ts) |-> Outcome(ts[h])]

\* a promise that follows its inputs even after it has settled
SettleLatest(promise, outcome) == outcome

\* A promise that has settled stays as it is.
Settle(promise, outcome) == IF promise.state = "pending" THEN outcome ELSE Outcome(promise)

\* The promises of operation o after the activations ts have taken their turn.
Propagate(op, o, ts) ==
    IF op.fn = "injectContentScript"
    THEN LET targets == [j \in 1..Len(op.targets) |->
                            Settle(op.targets[j], PromiseAll(OutcomesOf(TasksOf(ts, o, j))))]
             whole == Settle(op, PromiseAll(targets))
         IN  [op EXCEPT !.targets = targets, !.state = whole.state, !.error = whole.error]
    ELSE LET own == Settle(op, PromiseAll(OutcomesOf(TasksOf(ts, o, 0))))
         IN  [op EXCEPT !.state = own.state, !.error = own.error]

\* The state after a task of the event loop that left the world as w.
Leave(nextOps, w) ==
    /\ tasks' = w.tasks
    /\ calls' = w.calls
    /\ ops' = [o \in 1..Len(nextOps) |-> Propagate(nextOps[o], o, w.tasks)]
    /\ UNCHANGED gotScripting

Now == World(tasks, calls, <<>>)

(***************************************************************************)
(* Inputs.                                                                 *)
(***************************************************************************)
\* the text of the inline code is also the name of a file
Sources == {StringSource("a"), StringSource("b"), FileSource("a"), CodeSource("a")}
FileLists == SeqsUpTo(Sources, MaxFiles)

OptionInputs == {Options(Undefined), Options(Some(TRUE))}

\* details of a direct call: every frame of tab 1, or frame 5 of tab 1
DetailInputs ==
    {Details(1, Undefined, files, Some(TRUE), Undefined, Undefined) : files \in FileLists}
    \cup {Details(1, Some(5), files, Undefined, Some(TRUE), Some("document_end")) :
            files \in FileLists}

TabClosed == Error("Error", Some(<<"The tab was closed", ".">>))
CannotAccess == Error("Error", Some(<<"Cannot access contents of the page">>))
HostErrors == {TabClosed, CannotAccess}

\* what a promise handed to catchTargetInjectionErrors may reject with:
\* undefined, an error without a message, an error with a message
Phrases ==
    {"No frame with id ", " in tab ", "No tab with id: ", "The tab was closed",
     "The frame was removed"}
\* a message opens with any token and goes on with characters, with the
\* phrase between two numbers, or with a phrase that opens a message
Messages ==
    {<<>>} \cup
    {<<first>> \o rest :
        first \in Phrases \cup Chars,
        rest \in SeqsUpTo(Chars \cup {" in tab ", "The tab was closed"}, MaxMessage - 1)}
Rejections ==
    {Undefined, Some(Error("Error", Undefined))}
    \cup {Some(Error("Error", Some(message))) : message \in Messages}

\* inputs of executeFunction. The text of a native function depends on the
\* engine: its name is a word, absent (a bound function), an accessor or a
\* symbol, and the whitespace around [native code] varies.
NativeNames ==
    (SeqsUpTo(WordChars, MaxName) \ {<<>>})
    \cup {<<>>, <<"get ", "f">>, <<"[Symbol.toPrimitive]">>}

Gaps == SeqsUpTo(Spaces, MaxGap) \ {<<>>}

NativeFunctions ==
    {[native |-> TRUE,
      text |-> <<"function ">> \o name \o <<"() {">> \o gap \o <<"[native code]">>
               \o gap \o <<"}">>] : name \in NativeNames, gap \in Gaps}

UserFunctions ==
    {[native |-> FALSE, text |-> <<"() => ", "true">>],
     [native |-> FALSE, text |-> <<"function ", "f", "() {", " ", "return 1", " ", "}">>],
     [native |-> FALSE, text |-> <<"function ", "() {", " ", "return 1", " ", "}">>]}

FunctionInputs == NativeFunctions \cup UserFunctions

ArgumentInputs == {<<>>, <<"cute">>, <<"cute", "cats">>}

TargetInputs == {TabTarget(1), FrameTarget(1, 5)}

\* what the browser answers a function execution with: one result per frame
\* that ran it, a value or undefined
ResultLists == SeqsUpTo({Undefined, Some("x"), Some("y")}, MaxResults)

InjectionResults(list) == [i \in 1..Len(list) |-> [frameId |-> i - 1, result |-> list[i]]]

\* inputs of getTabsByUrl
InclusionInputs ==
    {<<>>, <<Pattern("*", "*")>>,
     <<Pattern("https", "example.com"), Pattern("http", "no-way.example.com")>>}

ExclusionInputs ==
    {Undefined} \cup
    {Some(patterns) :
        patterns \in SeqsUpTo({Pattern("http", "*"), Pattern("https", "example.com")},
                              MaxPatterns)}

\* the tabs the browser may answer with: the id is absent or a number from
\* 0 on, the url is absent (no permission for the tab) or given
TabInputs ==
    {Tab(id, url) :
        id \in {Undefined, Some(0), Some(1), Some(2)},
        url \in {Undefined, Some(Url("https", "example.com")),
                 Some(Url("http", "no-way.example.com"))}}

\* the ids of the tabs of one answer differ
TabLists ==
    {tabs \in SeqsUpTo(TabInputs, MaxTabs) :
        \A i, j \in 1..Len(tabs) :
            (i # j /\ tabs[i].id # Undefined) => tabs[i].id # tabs[j].id}

\* inputs of calls made while other calls are under way: all of them name
\* the path a for every frame of tab 1
ConcurrentScripts ==
    {Single(ContentScript(Undefined, Some(<<StringSource("a")>>))),
     Single(ContentScript(Some(<<StringSource("a")>>),
                          Some(<<StringSource("a"), FileSource("b")>>))),
     Array(<<ContentScript(Some(<<StringSource("a")>>), Undefined),
             ContentScript(Undefined, Some(<<StringSource("a")>>))>>)}

ConcurrentDetails ==
    {Details(1, Undefined, files, Some(TRUE), Undefined, Undefined) :
        files \in {<<StringSource("a")>>, <<StringSource("a"), FileSource("a")>>}}

\* number | Target: a bare tab id, or a tab id with a frame id
CastInputs ==
    {TabTarget(tabId) : tabId \in 0..MaxTabId}
        \cup {FrameTarget(tabId, frameId) : tabId \in 0..MaxTabId, frameId \in 0..MaxFrameId}

\* inputs of isScriptableUrl: no URL, or a text
UrlTokens ==
    {"http", "s", "://", "ftp", "chrome.google.com/webstore", "addons.mozilla.org",
     "example.com", "/"}

UrlInputs == {Undefined} \cup {Some(text) : text \in SeqsUpTo(UrlTokens, MaxUrl)}

\* inputs of injectContentScript
InjectSources == {StringSource("a"), FileSource("b"), CodeSource("a")}

\* the css or js of a bundle: absent, or a list of at most n sources
InjectLists(n) == {Undefined} \cup {Some(l) : l \in SeqsUpTo(InjectSources, n)}

ListLen(list) == Len(Coalesce(list, Some(<<>>))[1])

Entries(script) == ListLen(script.css) + ListLen(script.js)

RECURSIVE TotalEntries(_)
TotalEntries(scripts) ==
    IF scripts = <<>> THEN 0 ELSE Entries(Head(scripts)) + TotalEntries(Tail(scripts))

\* the bundles of at most n sources
ScriptInputs(n) ==
    UNION {{ContentScript(css, js) : js \in InjectLists(n - ListLen(css))} :
            css \in InjectLists(n)}

\* a bundle of an array leaves out the lists it has nothing to put in
Terse(script) == script.css # Some(<<>>) /\ script.js # Some(<<>>)

\* the arrays of at most b bundles and of at most n sources in all
RECURSIVE ScriptArrays(_, _)
ScriptArrays(b, n) ==
    IF b = 0 THEN {<<>>}
    ELSE {<<>>} \cup UNION {{<<script>> \o rest : rest \in ScriptArrays(b - 1, n - Entries(script))} :
                            script \in {x \in ScriptInputs(n) : Terse(x)}}

ScriptsInputs(n) ==
    {Single(script) : script \in ScriptInputs(n)}
    \cup {Array(scripts) : scripts \in ScriptArrays(MaxBundles, n)}

\* the options of a bundle, in either spelling: absent, or one of two values
BooleanOptions == {Undefined, Some(TRUE), Some(FALSE)}
RunAtOptions == {Undefined, Some("document_end"), Some("document_idle")}

\* a bundle of one stylesheet and one script, with options
OptionedScripts ==
    {[ContentScript(Some(<<StringSource("a")>>), Some(<<StringSource("b")>>)) EXCEPT
        !.allFrames = allFrames, !.all_frames = all_frames,
        !.matchAboutBlank = matchAboutBlank, !.match_about_blank = match_about_blank,
        !.runAt = runAt, !.run_at = run_at] :
            allFrames \in BooleanOptions, all_frames \in BooleanOptions,
            matchAboutBlank \in BooleanOptions, match_about_blank \in BooleanOptions,
            runAt \in RunAtOptions, run_at \in RunAtOptions}

\* details of a direct call that name a frame, all frames, both or neither
FrameDetails ==
    {Details(1, frameId, files, allFrames, Undefined, Undefined) :
        frameId \in {Undefined, Some(0), Some(5)},
        allFrames \in BooleanOptions,
        files \in {<<StringSource("a")>>, <<StringSource("a"), FileSource("b")>>}}

\* the targets of one call are distinct: a bare tab id (every frame of the
\* tab) at the odd places, one frame of a tab at the even places
TargetAt(j) == IF j % 2 = 1 THEN TabTarget(j) ELSE FrameTarget(j, 5)

\* one target passed bare, or an array of no target or of several
WhereInputs ==
    {Single(TargetAt(2))}
    \cup {Array([j \in 1..n |-> TargetAt(j)]) : n \in (0..MaxTargets) \ {1}}

\* what one call may name in all: MaxEntries sources, and MaxCalls host calls
EntriesFor(where) ==
    IF castArray(where) = <<>> THEN MaxEntries
    ELSE IF MaxCalls \div Len(castArray(where)) < MaxEntries
    THEN MaxCalls \div Len(castArray(where))
    ELSE MaxEntries

(***************************************************************************)
(* Actions.                                                                *)
(***************************************************************************)
Init ==
    /\ gotScripting \in BOOLEAN
    /\ ops = <<>>
    /\ tasks = <<>>
    /\ calls = <<>>

\* the extension calls executeScript(details, options)
ExecuteScript ==
    /\ ops = <<>>
    /\ \E d \in DetailInputs, options \in OptionInputs :
        Leave(Append(ops, Operation("executeScript", <<d, options>>, 0)),
              ContinueFrom(executeScript(Now, Owner(Len(ops) + 1, 0, 0), d, options),
                           Len(tasks) + 1))

\* the extension calls insertCSS(details, options)
InsertCSS ==
    /\ ops = <<>>
    /\ \E d \in DetailInputs, options \in OptionInputs :
        Leave(Append(ops, Operation("insertCSS", <<d, options>>, 0)),
              ContinueFrom(insertCSS(Now, Owner(Len(ops) + 1, 0, 0), d, options),
                           Len(tasks) + 1))

\* the browser fulfils the promise of host call k
HostFulfil ==
    /\ tasks # <<>>
    /\ \E k \in 1..Len(calls) :
        /\ calls[k].state = "pending"
        /\ Leave(ops, Continue([Now EXCEPT !.calls[k].state = "fulfilled"], calls[k].task))

\* the browser rejects the promise of host call k
HostReject ==
    /\ tasks # <<>>
    /\ \E k \in 1..Len(calls), error \in HostErrors :
        /\ calls[k].state = "pending"
        /\ Leave(ops, Continue([Now EXCEPT !.calls[k].state = "rejected",
                                           !.calls[k].error = Some(error)],
                               calls[k].task))

\* the extension calls injectContentScript(where, scripts, options)
InjectContentScript ==
    /\ ops = <<>>
    /\ \E where \in WhereInputs, options \in OptionInputs :
       \E scripts \in ScriptsInputs(EntriesFor(where)) :
          Leave(Append(ops, Operation("injectContentScript", <<where, scripts, options>>,
                                      Len(castArray(where)))),
                ContinueFrom(injectContentScript(Now, Len(ops) + 1, where, scripts, options),
                             Len(tasks) + 1))

Next == ExecuteScript \/ InsertCSS \/ HostFulfil \/ HostReject

Spec == Init /\ [][Next]_vars

NextInject == InjectContentScript \/ HostFulfil \/ HostReject

SpecInject == Init /\ [][NextInject]_vars

\* injection code calls catchTargetInjectionErrors(promise) on a pending promise
CatchTargetInjectionErrors ==
    /\ ops = <<>>
    /\ ops' = <<Operation("catchTargetInjectionErrors", <<>>, 0)>>
    /\ calls' = <<HostCall("promise", 0, 0)>>
    /\ UNCHANGED <<gotScripting, tasks>>

\* the classifier resumes as the promise it awaits has settled as `settled`
Resume(settled) ==
    LET promise == catchTargetInjectionErrors(Outcome(settled))
    IN  /\ calls' = <<settled>>
        /\ ops' = <<[ops[1] EXCEPT !.state = promise.state, !.error = promise.error]>>
        /\ UNCHANGED <<gotScripting, tasks>>

\* the awaited promise fulfils
PromiseFulfil ==
    /\ ops # <<>> /\ calls[1].state = "pending"
    /\ Resume([calls[1] EXCEPT !.state = "fulfilled"])

\* the awaited promise rejects
PromiseReject ==
    /\ ops # <<>> /\ calls[1].state = "pending"
    /\ \E error \in Rejections :
          Resume([calls[1] EXCEPT !.state = "rejected", !.error = error])

\* the extension calls injectContentScript(target, script) with a bundle
\* that sets options
InjectOptionedScript ==
    /\ ops = <<>>
    /\ \E target \in TargetInputs, script \in OptionedScripts :
          Leave(<<Operation("injectContentScript",
                            <<Single(target), Single(script), Options(Undefined)>>, 1)>>,
                ContinueFrom(injectContentScript(Now, 1, Single(target), Single(script),
                                                 Options(Undefined)),
                             1))

NextOptions == InjectOptionedScript \/ HostFulfil \/ HostReject

SpecOptions == Init /\ [][NextOptions]_vars

\* the promise getTabsByUrl returns, with the list it resolves with
TabsOperation(args, returned) ==
    [[value |-> returned] @@ Operation("getTabsByUrl", args, 0) EXCEPT
        !.state = IF returned = Undefined THEN "pending" ELSE "fulfilled"]

\* the extension calls getTabsByUrl(matches, excludeMatches)
GetTabsByUrl ==
    /\ ops = <<>>
    /\ \E matches \in InclusionInputs, excludeMatches \in ExclusionInputs :
          LET run == getTabsByUrl(matches, excludeMatches)
          IN  /\ ops' = <<TabsOperation(<<matches, excludeMatches>>, run.returned)>>
              /\ calls' = IF run.call = Undefined THEN <<>> ELSE <<run.call[1]>>
    /\ UNCHANGED <<gotScripting, tasks>>

\* the browser answers the query with a list of tabs
QueryFulfil ==
    /\ ops # <<>> /\ ops[1].fn = "getTabsByUrl"
    /\ calls # <<>> /\ calls[1].state = "pending"
    /\ \E tabs \in TabLists :
          /\ calls' = <<[calls[1] EXCEPT !.state = "fulfilled", !.result = Some(tabs)]>>
          /\ ops' = <<[ops[1] EXCEPT
                        !.state = "fulfilled",
                        !.value = Some(getTabsByUrlReturn(tabs, ops[1].args[2]))]>>
    /\ UNCHANGED <<gotScripting, tasks>>

\* the browser rejects the query
QueryReject ==
    /\ ops # <<>> /\ ops[1].fn = "getTabsByUrl"
    /\ calls # <<>> /\ calls[1].state = "pending"
    /\ \E error \in HostErrors :
          /\ calls' = <<[calls[1] EXCEPT !.state = "rejected", !.error = Some(error)]>>
          /\ ops' = <<[ops[1] EXCEPT !.state = "rejected", !.error = Some(error)]>>
    /\ UNCHANGED <<gotScripting, tasks>>

NextTabs == GetTabsByUrl \/ QueryFulfil \/ QueryReject

SpecTabs == Init /\ [][NextTabs]_vars

\* the extension calls isScriptableUrl(url), which returns at once
IsScriptableUrl ==
    /\ ops = <<>>
    /\ \E url \in UrlInputs :
          ops' = <<[[value |-> Some(isScriptableUrl(url))]
                    @@ Operation("isScriptableUrl", <<url>>, 0) EXCEPT !.state = "returned"]>>
    /\ UNCHANGED <<gotScripting, tasks, calls>>

NextUrl == IsScriptableUrl

SpecUrl == Init /\ [][NextUrl]_vars

\* a target is resolved for a single-frame operation
CastTarget ==
    /\ ops = <<>>
    /\ \E target \in CastInputs :
          ops' = <<[[value |-> Some(castTarget(target))]
                    @@ Operation("castTarget", <<target>>, 0) EXCEPT !.state = "returned"]>>
    /\ UNCHANGED <<gotScripting, tasks, calls>>

\* a target is resolved for an operation that may reach all frames
CastAllFramesTarget ==
    /\ ops = <<>>
    /\ \E target \in CastInputs :
          ops' = <<[[value |-> Some(castAllFramesTarget(target))]
                    @@ Operation("castAllFramesTarget", <<target>>, 0)
                        EXCEPT !.state = "returned"]>>
    /\ UNCHANGED <<gotScripting, tasks, calls>>

NextCast == CastTarget \/ CastAllFramesTarget

SpecCast == Init /\ [][NextCast]_vars

\* the extension calls injectContentScript, other calls being under way or not
ConcurrentInjectContentScript ==
    /\ Len(ops) < MaxOps
    /\ \E scripts \in ConcurrentScripts :
          Leave(Append(ops, Operation("injectContentScript",
                                      <<Single(TabTarget(1)), scripts, Options(Undefined)>>, 1)),
                ContinueFrom(injectContentScript(Now, Len(ops) + 1, Single(TabTarget(1)),
                                                 scripts, Options(Undefined)),
                             Len(tasks) + 1))

\* the extension calls executeScript, other calls being under way or not
ConcurrentExecuteScript ==
    /\ Len(ops) < MaxOps
    /\ \E d \in ConcurrentDetails :
          Leave(Append(ops, Operation("executeScript", <<d, Options(Undefined)>>, 0)),
                ContinueFrom(executeScript(Now, Owner(Len(ops) + 1, 0, 0), d, Options(Undefined)),
                             Len(tasks) + 1))

\* the extension calls insertCSS, other calls being under way or not
ConcurrentInsertCSS ==
    /\ Len(ops) < MaxOps
    /\ \E d \in ConcurrentDetails :
          Leave(Append(ops, Operation("insertCSS", <<d, Options(Undefined)>>, 0)),
                ContinueFrom(insertCSS(Now, Owner(Len(ops) + 1, 0, 0), d, Options(Undefined)),
                             Len(tasks) + 1))

NextConcurrent ==
    \/ ConcurrentInjectContentScript
    \/ ConcurrentExecuteScript
    \/ ConcurrentInsertCSS
    \/ HostFulfil
    \/ HostReject

SpecConcurrent == Init /\ [][NextConcurrent]_vars

\* the extension calls executeScript with details that name frames
ExecuteScriptInFrames ==
    /\ ops = <<>>
    /\ \E d \in FrameDetails, options \in OptionInputs :
        Leave(<<Operation("executeScript", <<d, options>>, 0)>>,
              ContinueFrom(executeScript(Now, Owner(1, 0, 0), d, options), 1))

\* the extension calls insertCSS with details that name frames
InsertCSSInFrames ==
    /\ ops = <<>>
    /\ \E d \in FrameDetails, options \in OptionInputs :
        Leave(<<Operation("insertCSS", <<d, options>>, 0)>>,
              ContinueFrom(insertCSS(Now, Owner(1, 0, 0), d, options), 1))

NextFrames == ExecuteScriptInFrames \/ InsertCSSInFrames \/ HostFulfil \/ HostReject

SpecFrames == Init /\ [][NextFrames]_vars

NextCatch == CatchTargetInjectionErrors \/ PromiseFulfil \/ PromiseReject

SpecCatch == Init /\ [][NextCatch]_vars

\* the promise executeFunction returns, with the value it resolves with
FunctionOperation(args, thrown) ==
    [[value |-> Undefined] @@ Operation("executeFunction", args, 0) EXCEPT
        !.state = IF thrown = Undefined THEN "pending" ELSE "rejected",
        !.error = thrown]

\* the extension calls executeFunction(target, function_, ...arguments_)
ExecuteFunction ==
    /\ ops = <<>>
    /\ \E target \in TargetInputs, function \in FunctionInputs, arguments \in ArgumentInputs :
          LET run == executeFunction(target, function, arguments)
          IN  /\ ops' = <<FunctionOperation(<<target, function, arguments>>, run.thrown)>>
              /\ calls' = IF run.call = Undefined THEN <<>> ELSE <<run.call[1]>>
    /\ UNCHANGED <<gotScripting, tasks>>

\* the browser answers the function execution with a list of results
FunctionFulfil ==
    /\ ops # <<>> /\ ops[1].fn = "executeFunction"
    /\ calls # <<>> /\ calls[1].state = "pending"
    /\ \E list \in ResultLists :
          LET answer == IF calls[1].api = "scripting.executeScript"
                        THEN InjectionResults(list) ELSE list
              call == [calls[1] EXCEPT !.state = "fulfilled", !.result = Some(answer)]
          IN  /\ calls' = <<call>>
              /\ ops' = <<[ops[1] EXCEPT !.state = "fulfilled",
                                         !.value = executeFunctionReturn(call)]>>
    /\ UNCHANGED <<gotScripting, tasks>>

\* the browser rejects the function execution
FunctionReject ==
    /\ ops # <<>> /\ ops[1].fn = "executeFunction"
    /\ calls # <<>> /\ calls[1].state = "pending"
    /\ \E error \in HostErrors :
          /\ calls' = <<[calls[1] EXCEPT !.state = "rejected", !.error = Some(error)]>>
          /\ ops' = <<[ops[1] EXCEPT !.state = "rejected", !.error = Some(error)]>>
    /\ UNCHANGED <<gotScripting, tasks>>

NextFunction == ExecuteFunction \/ FunctionFulfil \/ FunctionReject

SpecFunction == Init /\ [][NextFunction]_vars

\* the promise canAccessTab returns, executeFunction having settled or not
AccessOperation(args, awaited) ==
    LET op == [value |-> Undefined] @@ Operation("canAccessTab", args, 0)
    IN  IF awaited.state = "pending" THEN op
        ELSE canAccessTabReturn([op EXCEPT !.state = awaited.state, !.error = awaited.error])

\* the extension calls canAccessTab(target)
CanAccessTab ==
    /\ ops = <<>>
    /\ \E target \in CastInputs :
          LET run == canAccessTab(target)
          IN  /\ ops' = <<AccessOperation(<<target>>,
                                          IF run.thrown = Undefined THEN Pending
                                          ELSE Rejected(run.thrown))>>
              /\ calls' = IF run.call = Undefined THEN <<>> ELSE <<run.call[1]>>
    /\ UNCHANGED <<gotScripting, tasks>>

\* the browser answers the function execution of canAccessTab
AccessFulfil ==
    /\ ops # <<>> /\ ops[1].fn = "canAccessTab"
    /\ calls # <<>> /\ calls[1].state = "pending"
    /\ \E list \in ResultLists :
          LET answer == IF calls[1].api = "scripting.executeScript"
                        THEN InjectionResults(list) ELSE list
          IN  /\ calls' = <<[calls[1] EXCEPT !.state = "fulfilled", !.result = Some(answer)]>>
              /\ ops' = <<AccessOperation(ops[1].args, Fulfilled)>>
    /\ UNCHANGED <<gotScripting, tasks>>

\* the browser rejects the function execution of canAccessTab
AccessReject ==
    /\ ops # <<>> /\ ops[1].fn = "canAccessTab"
    /\ calls # <<>> /\ calls[1].state = "pending"
    /\ \E error \in HostErrors :
          /\ calls' = <<[calls[1] EXCEPT !.state = "rejected", !.error = Some(error)]>>
          /\ ops' = <<AccessOperation(ops[1].args, Rejected(Some(error)))>>
    /\ UNCHANGED <<gotScripting, tasks>>

NextAccess == CanAccessTab \/ AccessFulfil \/ AccessReject

SpecAccess == Init /\ [][NextAccess]_vars

\* Every operation that returns a promise, with every host call settled in
\* the end.
NextLive ==
    \/ ExecuteScript
    \/ InsertCSS
    \/ InjectOptionedScript
    \/ ExecuteFunction
    \/ GetTabsByUrl
    \/ HostFulfil
    \/ HostReject
    \/ FunctionFulfil
    \/ FunctionReject
    \/ QueryFulfil
    \/ QueryReject

\* no promise of the browser is outstanding
NoneOutstanding == \A k \in 1..Len(calls) : calls[k].state # "pending"

\* The browser settles every promise it returned: as a call never goes back
\* to pending and an operation makes finitely many calls, that is to say
\* that again and again none is outstanding.
SpecLive == Init /\ [][NextLive]_vars /\ []<>NoneOutstanding

(***************************************************************************)
(* Properties. The helpers below say what a call was given and what the    *)
(* browser was handed; they are written from the contract, not from the    *)
(* code.                                                                   *)
(***************************************************************************)
Called(fn) == ops # <<>> /\ ops[1].fn = fn

\* the `files` and the options of a direct call
GivenFiles == ops[1].args[1].files
GivenOptions == ops[1].args[2]

IsCode(source) == source.type = "code"

Front(s) == SubSeq(s, 1, Len(s) - 1)

\* What a list asks to inject: every inline code, and every path where the
\* list names it first.
RECURSIVE Kept(_)
Kept(files) ==
    IF files = <<>> THEN <<>>
    ELSE LET x == Last(files)
             named == \E i \in 1..(Len(files) - 1) :
                        ~IsCode(files[i]) /\ files[i].value = x.value
         IN  IF ~IsCode(x) /\ named THEN Kept(Front(files))
             ELSE Append(Kept(Front(files)),
                         [code |-> IsCode(x), value |-> x.value])

\* host call c hands the browser exactly the source x
Carries(c, x) ==
    IF x.code
    THEN /\ c.file = Undefined /\ c.files = Undefined
         /\ IF c.api = "scripting.insertCSS"
            THEN c.css = Some(x.value) /\ c.code = Undefined
            ELSE c.code = Some(x.value) /\ c.css = Undefined
    ELSE /\ c.code = Undefined /\ c.css = Undefined
         /\ IF c.api = "scripting.insertCSS"
            THEN c.files = Some(<<x.value>>) /\ c.file = Undefined
            ELSE c.file = Some(x.value) /\ c.files = Undefined

\* the place of host call k among the executions of its activation
PlaceOf(ts, cs, k) ==
    CHOOSE pos \in 1..Len(ts[cs[k].task].executions) : ts[cs[k].task].executions[pos] = k

AllSettled == \A k \in 1..Len(calls) : calls[k].state # "pending"
AllFulfilled == \A k \in 1..Len(calls) : calls[k].state = "fulfilled"

(***************************************************************************)
(* C1. Legacy executeScript: an inline-code entry is handed to the browser *)
(* only once the call of the entry right before it has fulfilled; a file   *)
(* entry is handed over in the same turn as the entry right before it,     *)
(* whose call is then still pending (the first entry: in the turn of the   *)
(* call of executeScript).                                                 *)
(***************************************************************************)
C1_Submitted(k) ==
    LET t == calls'[k].task
        pos == PlaceOf(tasks', calls', k)
        prev == tasks'[t].executions[pos - 1]
    IN  calls'[k].api = "tabs.executeScript" =>
            IF pos = 1 THEN ops = <<>>
            ELSE IF calls'[k].code # Undefined
            THEN calls'[prev].state = "fulfilled"
            ELSE prev > Len(calls) /\ calls'[prev].state = "pending"

C1_CodeAwaitsPredecessor ==
    [][\A k \in (Len(calls) + 1)..Len(calls') : C1_Submitted(k)]_vars

\* [a.js, code, b.js]: b.js has been handed over while the code call is pending
C1_Witness ==
    /\ Called("executeScript") /\ ~gotScripting
    /\ Len(calls) = 3
    /\ calls[1].file # Undefined /\ calls[1].state = "fulfilled"
    /\ calls[2].code # Undefined /\ calls[2].state = "pending"
    /\ calls[3].file # Undefined /\ calls[3].state = "pending"

\* C1 as stated: besides the wait of inline code, no file entry is held back
\* while an earlier host call of the list has yet to settle.
C1_FilesWaitForNothing ==
    \A t \in 1..Len(tasks) :
        (tasks[t].fn = "executeScript" /\ ~gotScripting) =>
            \A i \in tasks[t].i..Len(tasks[t].normalizedFiles) :
                ~IsCode(tasks[t].normalizedFiles[i]) =>
                    \A j \in 1..Len(tasks[t].executions) :
                        calls[tasks[t].executions[j]].state # "pending"

(***************************************************************************)
(* C2. Modern executeScript given a list with an inline-code entry, at any *)
(* place of the list: the promise is rejected with the unsupported-        *)
(* operation error and the browser is handed nothing.                      *)
(***************************************************************************)
C2_ModernRejectsCode ==
    (/\ Called("executeScript") /\ gotScripting
     /\ \E i \in 1..Len(GivenFiles) : IsCode(GivenFiles[i]))
        => /\ ops[1].state = "rejected"
           /\ ops[1].error = Some(UnsupportedCode)
           /\ calls = <<>>

\* the inline code comes after a file entry
C2_Witness ==
    /\ Called("executeScript") /\ gotScripting
    /\ Len(GivenFiles) >= 2
    /\ ~IsCode(GivenFiles[1]) /\ IsCode(GivenFiles[2])
    /\ ops[1].state = "rejected"

(***************************************************************************)
(* C3. Modern executeScript given file entries only: exactly one host      *)
(* call, whose file list is the caller's paths in the caller's order, each *)
(* path once.                                                              *)
(***************************************************************************)
C3_ModernOneBatch ==
    (/\ Called("executeScript") /\ gotScripting
     /\ \A i \in 1..Len(GivenFiles) : ~IsCode(GivenFiles[i]))
        => /\ Len(calls) = 1
           /\ calls[1].api = "scripting.executeScript"
           /\ calls[1].files = Some([i \in 1..Len(Kept(GivenFiles)) |-> Kept(GivenFiles)[i].value])

\* the list names two paths, one of them twice
C3_Witness ==
    /\ Called("executeScript") /\ gotScripting
    /\ Len(GivenFiles) = 3
    /\ Len(calls) = 1 /\ calls[1].files # Undefined /\ Len(calls[1].files[1]) = 2

(***************************************************************************)
(* C4. insertCSS hands the browser one call per normalized source, in the  *)
(* turn of the call of insertCSS, under either capability: all of them are *)
(* pending together, and none is added later.                              *)
(***************************************************************************)
C4_OnePerSource ==
    /\ Len(calls') = Len(Kept(ops'[1].args[1].files))
    /\ \A k \in 1..Len(calls') :
        /\ Carries(calls'[k], Kept(ops'[1].args[1].files)[k])
        /\ calls'[k].api = IF gotScripting THEN "scripting.insertCSS" ELSE "tabs.insertCSS"
        /\ ops = <<>> => calls'[k].state = "pending"

C4_InsertAllAtOnce ==
    [][(ops' # <<>> /\ ops'[1].fn = "insertCSS") => C4_OnePerSource]_vars

\* three stylesheet calls of one insertCSS, one settled while the others pend
C4_Witness ==
    /\ Called("insertCSS")
    /\ Len(calls) = 3
    /\ calls[2].state = "fulfilled"
    /\ calls[1].state = "pending" /\ calls[3].state = "pending"

(***************************************************************************)
(* C6. Inline code is never deduplicated. The activation keeps every       *)
(* inline-code entry of its list, in order, and an inline code does not    *)
(* stand in the way of a file named like its text. insertCSS hands the     *)
(* browser one call per inline-code entry under either capability; legacy  *)
(* executeScript has done so once its promise has fulfilled.               *)
(***************************************************************************)
CodeTexts(files) == SelectSeq([i \in 1..Len(files) |-> [code |-> IsCode(files[i]),
                                                        value |-> files[i].value]],
                              LAMBDA x : x.code)

\* the inline codes the browser was handed, in the order of the calls
CodeCalls ==
    SelectSeq([k \in 1..Len(calls) |->
                 [code |-> calls[k].code # Undefined \/ calls[k].css # Undefined,
                  value |-> Coalesce(calls[k].code, Coalesce(calls[k].css, Some("")))[1]]],
              LAMBDA x : x.code)

\* the paths the browser was handed one by one
FileCalls == {calls[k].file[1] : k \in {h \in 1..Len(calls) : calls[h].file # Undefined}}
             \cup {calls[k].files[1][1] : k \in {h \in 1..Len(calls) :
                        calls[h].api = "scripting.insertCSS" /\ calls[h].files # Undefined}}

C6_CodeNeverDeduplicated ==
    (Called("insertCSS") \/ (Called("executeScript") /\ ~gotScripting))
        => /\ CodeTexts(tasks[1].normalizedFiles) = CodeTexts(GivenFiles)
           /\ Len(CodeCalls) <= Len(CodeTexts(GivenFiles))
           /\ (Called("insertCSS") \/ ops[1].state = "fulfilled")
                => /\ CodeCalls = CodeTexts(GivenFiles)
                   /\ FileCalls = {GivenFiles[i].value : i \in {h \in 1..Len(GivenFiles) :
                                                                    ~IsCode(GivenFiles[h])}}

\* legacy executeScript has handed over three inline codes of the same text
C6_Witness ==
    /\ Called("executeScript") /\ ~gotScripting
    /\ Len(CodeCalls) = 3
    /\ \A i \in 1..3 : CodeCalls[i].value = CodeCalls[1].value
    /\ ops[1].state = "fulfilled"

(***************************************************************************)
(* C10. ignoreTargetErrors covers every injection of a call: when it is    *)
(* set, every host call has settled and each rejection among them is a     *)
(* target-disappeared error, the promise of the call has fulfilled. (The   *)
(* modern executeScript given inline code is left aside: it is rejected    *)
(* before any host call, see C2.)                                          *)
(***************************************************************************)
C10_IgnoreCoversEveryCall ==
    (/\ ops # <<>>
     /\ Truthy(ops[1].args[Len(ops[1].args)].ignoreTargetErrors)
     /\ AllSettled
     /\ \A k \in 1..Len(calls) : calls[k].state = "rejected" => calls[k].error = Some(TabClosed)
     /\ \A t \in 1..Len(tasks) : tasks[t].error # Some(UnsupportedCode))
        => ops[1].state = "fulfilled"

(***************************************************************************)
(* What injectContentScript was given.                                     *)
(***************************************************************************)
\* the values of a MaybeArray, one or several
Listed(maybeArray) == maybeArray.value

GivenTargets == Listed(ops[1].args[1])
GivenScripts == Listed(ops[1].args[2])

\* the css (kind 1) or js (kind 2) list of a bundle, empty when absent
ListOf(script, kind) ==
    LET list == IF kind = 1 THEN script.css ELSE script.js
    IN  IF list = Undefined THEN <<>> ELSE list[1]

\* the lists of the call in the order css, js of the first bundle, css, js
\* of the second, ...: list 2b-1 is the css of bundle b, list 2b its js
GivenList(n) == ListOf(GivenScripts[(n + 1) \div 2], 2 - (n % 2))

NamesPath(list, path) == \E i \in 1..Len(list) : ~IsCode(list[i]) /\ list[i].value = path

NamedPaths ==
    {path \in {"a", "b"} : \E n \in 1..(2 * Len(GivenScripts)) : NamesPath(GivenList(n), path)}

\* entry i of list n is to be injected: an inline code, or the first naming
\* of its path in the call
First(n, i) ==
    \/ IsCode(GivenList(n)[i])
    \/ /\ ~NamesPath(SubSeq(GivenList(n), 1, i - 1), GivenList(n)[i].value)
       /\ \A m \in 1..(n - 1) : ~NamesPath(GivenList(m), GivenList(n)[i].value)

\* host call k is aimed at the j-th target of the call
AimedAt(k, j) == calls[k].tabId = GivenTargets[j].tabId

\* the places where the browser was handed the path for the j-th target
Submissions(j, path) ==
    {<<k, 1>> : k \in {h \in 1..Len(calls) :
        /\ AimedAt(h, j)
        /\ \/ calls[h].file = Some(path)
           \/ calls[h].api = "scripting.insertCSS" /\ calls[h].files = Some(<<path>>)}}
    \cup UNION {{<<k, i>> : i \in {h \in 1..Len(calls[k].files[1]) : calls[k].files[1][h] = path}} :
                   k \in {h \in 1..Len(calls) :
                            AimedAt(h, j) /\ calls[h].api = "scripting.executeScript"}}

IsInsertion(k) == calls[k].api \in {"scripting.insertCSS", "tabs.insertCSS"}

(***************************************************************************)
(* C5. Within one injectContentScript and for one target of its list, the  *)
(* browser is handed each file path at most once over all bundles; a path  *)
(* that two bundles name in their css (and no bundle in its js) is handed  *)
(* over in exactly one call, a stylesheet insertion.                       *)
(***************************************************************************)
C5_PathOncePerTarget ==
    Called("injectContentScript") =>
        \A j \in 1..Len(GivenTargets), path \in NamedPaths :
            /\ Cardinality(Submissions(j, path)) <= 1
            /\ (/\ Cardinality({b \in 1..Len(GivenScripts) :
                                    NamesPath(ListOf(GivenScripts[b], 1), path)}) >= 2
                /\ \A b \in 1..Len(GivenScripts) : ~NamesPath(ListOf(GivenScripts[b], 2), path))
                    => /\ Cardinality(Submissions(j, path)) = 1
                       /\ \A x \in Submissions(j, path) : IsInsertion(x[1])

\* two bundles whose css name the same path, one insertion of it
C5_Witness ==
    /\ Called("injectContentScript")
    /\ Len(GivenScripts) = 2 /\ Len(GivenTargets) >= 1
    /\ NamesPath(ListOf(GivenScripts[1], 1), "a")
    /\ NamesPath(ListOf(GivenScripts[2], 1), "a")
    /\ Cardinality(Submissions(1, "a")) = 1

(***************************************************************************)
(* C7. injectContentScript with every host call fulfilled (and, under the  *)
(* modern capability, no inline code in a js list): for every target of    *)
(* the list, the browser has been handed every path that some bundle names *)
(* in its css or js exactly once.                                          *)
(***************************************************************************)
ModernCodeInJs ==
    gotScripting /\ \E b \in 1..Len(GivenScripts) :
        \E i \in 1..Len(ListOf(GivenScripts[b], 2)) : IsCode(ListOf(GivenScripts[b], 2)[i])

C7_EveryPathEveryTarget ==
    (Called("injectContentScript") /\ AllFulfilled /\ ~ModernCodeInJs) =>
        \A j \in 1..Len(GivenTargets), path \in NamedPaths :
            Cardinality(Submissions(j, path)) = 1

\* two targets, two paths, four fulfilled calls
C7_Witness ==
    /\ Called("injectContentScript") /\ AllFulfilled
    /\ Len(GivenTargets) = 2 /\ NamedPaths = {"a", "b"}
    /\ \A j \in 1..2, path \in NamedPaths : Cardinality(Submissions(j, path)) = 1

(***************************************************************************)
(* C8. injectContentScript starts everything at once. From the turn of the *)
(* call on, every target has an activation for each css and each js list   *)
(* that has something to inject, every stylesheet source has been handed   *)
(* over, and a source that has not been handed over is in a legacy js list *)
(* at or behind an inline-code entry whose immediate predecessor in that   *)
(* list is pending or has rejected (or in a modern js list rejected for    *)
(* its inline code).                                                       *)
(***************************************************************************)
Started(j, n) ==
    \E t \in 1..Len(tasks) :
        /\ tasks[t].target = j /\ tasks[t].bundle = (n + 1) \div 2
        /\ tasks[t].fn = IF n % 2 = 1 THEN "insertCSS" ELSE "executeScript"

HeldBack(t) == tasks[t].i <= Len(tasks[t].normalizedFiles)

C8_NothingWaitsForOthers ==
    Called("injectContentScript") =>
        /\ \A j \in 1..Len(GivenTargets), n \in 1..(2 * Len(GivenScripts)) :
              (\E i \in 1..Len(GivenList(n)) : First(n, i)) => Started(j, n)
        /\ \A t \in 1..Len(tasks) :
              /\ Len(tasks[t].executions) =
                    IF tasks[t].fn = "executeScript" /\ gotScripting
                    THEN (IF tasks[t].state = "rejected" /\ tasks[t].error = Some(UnsupportedCode)
                          THEN 0 ELSE 1)
                    ELSE tasks[t].i - 1
              /\ HeldBack(t) =>
                    /\ tasks[t].fn = "executeScript"
                    /\ \/ /\ gotScripting /\ tasks[t].error = Some(UnsupportedCode)
                       \/ /\ ~gotScripting
                          /\ HasCode(tasks[t].normalizedFiles[tasks[t].i])
                          /\ tasks[t].executions # <<>>
                          /\ calls[Last(tasks[t].executions)].task = t
                          /\ calls[Last(tasks[t].executions)].state \in {"pending", "rejected"}

\* an inline code of the first target waits for its predecessor while the
\* second target's script has already fulfilled
C8_Witness ==
    /\ Called("injectContentScript") /\ Len(GivenTargets) = 2
    /\ \E t \in 1..Len(tasks) :
        /\ tasks[t].target = 1 /\ HeldBack(t) /\ tasks[t].executions # <<>>
        /\ calls[Last(tasks[t].executions)].state = "pending"
    /\ \E k \in 1..Len(calls) : AimedAt(k, 2) /\ calls[k].state = "fulfilled"

(***************************************************************************)
(* C9: catchTargetInjectionErrors resolves when the awaited promise        *)
(* fulfils; resolves when it rejects with an error whose message is one of *)
(* the four target-disappeared messages; and rejects with the same error   *)
(* for every other rejection, an error without a message included. Until   *)
(* the awaited promise settles it stays pending.                           *)
(***************************************************************************)
IsNumber(text) == text # <<>> /\ \A i \in 1..Len(text) : text[i] \in Digits

\* the digits between the phrase that opens a message and position n
Between(text, m, n) == SubSeq(text, m + 1, n - 1)

\* the four messages, each closed by one character of any kind
TargetDisappeared(text) ==
    /\ text # <<>>
    /\ Last(text) \in Chars
    /\ LET n == Len(text)
       IN  \/ text = <<"The tab was closed", Last(text)>>
           \/ text = <<"The frame was removed", Last(text)>>
           \/ /\ text[1] = "No tab with id: "
              /\ IsNumber(Between(text, 1, n))
           \/ /\ text[1] = "No frame with id "
              /\ \E m \in 2..(n - 1) :
                    /\ text[m] = " in tab "
                    /\ IsNumber(Between(text, 1, m))
                    /\ IsNumber(Between(text, m, n))

HasMessage(error) == error # Undefined /\ error[1].message # Undefined

C9_Classifies ==
    Called("catchTargetInjectionErrors") =>
        LET awaited == calls[1]
            swallowed == /\ HasMessage(awaited.error)
                         /\ TargetDisappeared(awaited.error[1].message[1])
        IN  /\ awaited.state = "pending" => ops[1].state = "pending"
            /\ awaited.state = "fulfilled" => ops[1].state = "fulfilled"
            /\ awaited.state = "rejected" /\ swallowed => ops[1].state = "fulfilled"
            /\ awaited.state = "rejected" /\ ~swallowed =>
                  ops[1].state = "rejected" /\ ops[1].error = awaited.error

\* the rejection for a frame that is gone is swallowed
C9_Witness ==
    /\ Called("catchTargetInjectionErrors")
    /\ calls[1].state = "rejected"
    /\ HasMessage(calls[1].error)
    /\ calls[1].error[1].message[1] = <<"No frame with id ", "4", " in tab ", "7", ".">>
    /\ ops[1].state = "fulfilled"

(***************************************************************************)
(* C11. A host rejection that is not suppressed always propagates: once    *)
(* every host call of an operation has settled, its promise is rejected if *)
(* some host call was rejected with an error that is not a target-         *)
(* disappeared error, or with any error while ignoreTargetErrors is unset, *)
(* whatever the order of the settlements.                                  *)
(***************************************************************************)
IgnoresTargetErrors == Truthy(ops[1].args[Len(ops[1].args)].ignoreTargetErrors)

\* host call k was rejected with an error that ignoreTargetErrors does not cover
Unsuppressed(k) ==
    /\ calls[k].state = "rejected"
    /\ ~IgnoresTargetErrors \/ calls[k].error # Some(TabClosed)

C11_UnsuppressedRejectionPropagates ==
    (/\ ops # <<>>
     /\ AllSettled
     /\ \E k \in 1..Len(calls) : Unsuppressed(k))
        => ops[1].state = "rejected"

(***************************************************************************)
(* C12. In an injectContentScript over several targets each target settles *)
(* on its own: its promise is rejected once one of its own injections is   *)
(* rejected, fulfilled once all of them are fulfilled. A rejection cancels *)
(* nothing (host calls are never withdrawn, and only the browser settles   *)
(* them) and holds nothing back (an inline code whose predecessor fulfils  *)
(* is handed over in that very step, whatever has been rejected by then).  *)
(* The combined promise is rejected exactly when some target is, with the  *)
(* error of the first target that was rejected, and keeps that error.      *)
(***************************************************************************)
\* the activations of the j-th target
Injections(ts, j) == {t \in 1..Len(ts) : ts[t].target = j}

C12_TargetSettled(ts, promise, j) ==
    IF \E t \in Injections(ts, j) : ts[t].state = "rejected"
    THEN /\ promise.state = "rejected"
         /\ \E t \in Injections(ts, j) : ts[t].state = "rejected" /\ ts[t].error = promise.error
    ELSE IF \A t \in Injections(ts, j) : ts[t].state = "fulfilled"
    THEN promise.state = "fulfilled"
    ELSE promise.state = "pending"

\* no host call is withdrawn or altered, but for the browser settling it
C12_NothingCancelled ==
    /\ Len(calls') >= Len(calls)
    /\ \A k \in 1..Len(calls) :
          \/ calls'[k] = calls[k]
          \/ /\ calls[k].state = "pending"
             /\ calls'[k] = [calls[k] EXCEPT !.state = calls'[k].state, !.error = calls'[k].error]

\* an entry that waited for the call that has just fulfilled is handed over
C12_NothingPrevented ==
    \A t \in 1..Len(tasks) :
        (/\ HeldBack(t) /\ tasks[t].executions # <<>>
         /\ calls[Last(tasks[t].executions)].state = "pending"
         /\ calls'[Last(tasks[t].executions)].state = "fulfilled")
            => /\ Len(tasks'[t].executions) > Len(tasks[t].executions)
               /\ calls'[Last(tasks'[t].executions)].tabId = tasks[t].details.tabId

C12_FirstRejection ==
    /\ ops[1].state = "rejected" => ops'[1].state = "rejected" /\ ops'[1].error = ops[1].error
    /\ (ops[1].state = "pending" /\ ops'[1].state = "rejected") =>
          \E j \in 1..Len(ops[1].targets) :
              /\ ops[1].targets[j].state = "pending"
              /\ ops'[1].targets[j] = Rejected(ops'[1].error)

C12_TargetsSettleIndependently ==
    [][(ops' # <<>> /\ ops'[1].fn = "injectContentScript") =>
        /\ \A j \in 1..Len(ops'[1].targets) :
              C12_TargetSettled(tasks', ops'[1].targets[j], j)
        /\ ops'[1].state = "rejected" <=>
              \E j \in 1..Len(ops'[1].targets) : ops'[1].targets[j].state = "rejected"
        /\ ops # <<>> => C12_NothingCancelled /\ C12_NothingPrevented /\ C12_FirstRejection]_vars

\* the second target has been rejected, and with it the combined promise,
\* while an inline code of the first target waits for its predecessor
C12_Witness ==
    /\ Called("injectContentScript") /\ Len(GivenTargets) = 2
    /\ ops[1].targets[2].state = "rejected" /\ ops[1].targets[1].state = "pending"
    /\ ops[1].state = "rejected" /\ ops[1].error = ops[1].targets[2].error
    /\ \E t \in Injections(tasks, 1) :
          /\ HeldBack(t) /\ tasks[t].executions # <<>>
          /\ calls[Last(tasks[t].executions)].state = "pending"

(***************************************************************************)
(* What executeFunction was given.                                         *)
(***************************************************************************)
GivenTarget == ops[1].args[1]
GivenFunction == ops[1].args[2]

(***************************************************************************)
(* C13. executeFunction given a native function: the promise is rejected   *)
(* with the TypeError that tells the caller to wrap the function, and the  *)
(* browser is handed nothing, under either capability and for every        *)
(* target.                                                                 *)
(***************************************************************************)
C13_NativeRejected ==
    (Called("executeFunction") /\ GivenFunction.native)
        => /\ ops[1].state = "rejected"
           /\ ops[1].error = Some(NativeFunctionError)
           /\ calls = <<>>

(***************************************************************************)
(* C14. executeFunction given a user function hands the browser exactly    *)
(* one call, aimed at exactly one frame of the tab (frame 0 for a bare tab *)
(* id, the given frame for an explicit target) and never at all frames.    *)
(* Once the browser has answered, the promise is resolved with the result  *)
(* of the first element of the answer (undefined when the answer is        *)
(* empty); when the browser rejects the call, the promise is rejected with *)
(* the same error.                                                         *)
(***************************************************************************)
C14_Frame == IF GivenTarget.type = "number" THEN 0 ELSE GivenTarget.frameId[1]

C14_FirstResult(answer) ==
    IF answer = <<>> THEN Undefined
    ELSE IF gotScripting THEN answer[1].result
    ELSE answer[1]

C14_UserFunctionOneFrame ==
    (Called("executeFunction") /\ ~GivenFunction.native)
        => /\ Len(calls) = 1
           /\ calls[1].tabId = GivenTarget.tabId
           /\ calls[1].allFrames = Undefined
           /\ IF gotScripting
              THEN /\ calls[1].api = "scripting.executeScript"
                   /\ calls[1].frameIds = Some(<<C14_Frame>>)
                   /\ calls[1].frameId = Undefined
                   /\ calls[1].func = Some(GivenFunction)
              ELSE /\ calls[1].api = "tabs.executeScript"
                   /\ calls[1].frameId = Some(C14_Frame)
                   /\ calls[1].frameIds = Undefined
                   /\ calls[1].code # Undefined
           /\ calls[1].state = "pending" => ops[1].state = "pending"
           /\ calls[1].state = "fulfilled" =>
                 /\ ops[1].state = "fulfilled"
                 /\ ops[1].value = C14_FirstResult(calls[1].result[1])
           /\ calls[1].state = "rejected" =>
                 /\ ops[1].state = "rejected"
                 /\ ops[1].error = calls[1].error

\* two frames answered with different results, the promise has the first
C14_Witness ==
    /\ Called("executeFunction") /\ ~GivenFunction.native
    /\ GivenTarget.type = "number"
    /\ calls[1].state = "fulfilled"
    /\ Len(calls[1].result[1]) = 2
    /\ C14_FirstResult(calls[1].result[1]) = Some("x")
    /\ C14_FirstResult(Tail(calls[1].result[1])) = Some("y")
    /\ ops[1].value = Some("x")

(***************************************************************************)
(* C15. injectContentScript takes each option of a bundle in either        *)
(* spelling, and every host call of the bundle carries the camelCase value *)
(* when the bundle has one (false included), the snake_case value          *)
(* otherwise. (matchAboutBlank and runAt are looked at in the legacy       *)
(* calls, the only ones with such arguments; a stylesheet without runAt in *)
(* either spelling gets document_start. allFrames goes with the call       *)
(* unless it names a frame.)                                               *)
(***************************************************************************)
GivenScript == GivenScripts[1]

\* a ?? b, from the contract: the first when present, the second otherwise
Preferred(camelCase, snake_case) == IF camelCase = Undefined THEN snake_case ELSE camelCase

C15_BothSpellingsReachHost ==
    Called("injectContentScript") =>
        \A k \in 1..Len(calls) :
            /\ (calls[k].frameIds = Undefined /\ calls[k].frameId = Undefined
                 /\ Preferred(GivenScript.allFrames, GivenScript.all_frames) # Undefined)
                  => calls[k].allFrames = Preferred(GivenScript.allFrames, GivenScript.all_frames)
            /\ ~gotScripting =>
                  /\ calls[k].matchAboutBlank =
                        Preferred(GivenScript.matchAboutBlank, GivenScript.match_about_blank)
                  /\ calls[k].runAt =
                        IF /\ IsInsertion(k)
                           /\ Preferred(GivenScript.runAt, GivenScript.run_at) = Undefined
                        THEN Some("document_start")
                        ELSE Preferred(GivenScript.runAt, GivenScript.run_at)

(***************************************************************************)
(* C16. The runAt of the stylesheet calls of insertCSS. Under the legacy   *)
(* capability every call carries document_start when the caller gave no    *)
(* runAt, and the caller's runAt when one was given; under the modern      *)
(* capability no call carries a runAt, whatever the caller gave.           *)
(***************************************************************************)
GivenRunAt == ops[1].args[1].runAt

C16_RunAtOrDefault == IF GivenRunAt = Undefined THEN Some("document_start") ELSE GivenRunAt

C16_LegacyRunAtDefault ==
    Called("insertCSS") =>
        \A k \in 1..Len(calls) :
            calls[k].runAt = IF gotScripting THEN Undefined ELSE C16_RunAtOrDefault

\* legacy stylesheet calls of a caller who gave no runAt
C16_Witness ==
    /\ Called("insertCSS") /\ ~gotScripting
    /\ GivenRunAt = Undefined
    /\ Len(calls) = 2
    /\ \A k \in 1..2 : calls[k].runAt = Some("document_start")

\* C16 as stated: the same under whichever capability
C16_RunAtWhicheverCapability ==
    Called("insertCSS") =>
        \A k \in 1..Len(calls) : calls[k].runAt = C16_RunAtOrDefault

(***************************************************************************)
(* What getTabsByUrl was given and what the browser answered.              *)
(***************************************************************************)
GivenMatches == ops[1].args[1]
GivenExcludeMatches == ops[1].args[2]
ReturnedTabs == calls[1].result[1]

\* the url of the tab matches one of the exclusion patterns of the call
Excluded(tab) ==
    /\ tab.url # Undefined
    /\ GivenExcludeMatches # Undefined
    /\ \E i \in 1..Len(GivenExcludeMatches[1]) :
          LET pattern == GivenExcludeMatches[1][i]
          IN  /\ pattern.scheme = "*" \/ pattern.scheme = tab.url[1].scheme
              /\ pattern.host = "*" \/ pattern.host = tab.url[1].host

(***************************************************************************)
(* C17. getTabsByUrl given an empty inclusion list resolves with the empty *)
(* list and asks the browser nothing, whatever the exclusion list.         *)
(***************************************************************************)
C17_EmptyInclusionNoQuery ==
    (Called("getTabsByUrl") /\ GivenMatches = <<>>)
        => /\ ops[1].state = "fulfilled"
           /\ ops[1].value = Some(<<>>)
           /\ calls = <<>>

\* no inclusion pattern, two exclusion patterns
C17_Witness ==
    /\ Called("getTabsByUrl") /\ GivenMatches = <<>>
    /\ GivenExcludeMatches # Undefined /\ Len(GivenExcludeMatches[1]) = 2
    /\ ops[1].state = "fulfilled"

(***************************************************************************)
(* C18. getTabsByUrl given inclusion patterns asks the browser once, for   *)
(* these patterns, and resolves with ids of returned tabs in the order of  *)
(* the answer: no tab whose url matches an exclusion pattern is among      *)
(* them, were it the only tab returned, and every returned tab with an id  *)
(* other than 0 and a url that matches no exclusion pattern is. (A tab     *)
(* with the id 0 is the matter of C19.)                                    *)
(***************************************************************************)
\* the ids of the tabs at the places picked, in the order of the answer
IdsAt(tabs, picked) ==
    LET places == SelectSeq([i \in 1..Len(tabs) |-> i], LAMBDA i : i \in picked)
    IN  [n \in 1..Len(places) |-> tabs[places[n]].id[1]]

C18_ExclusionFilters ==
    (Called("getTabsByUrl") /\ GivenMatches # <<>>)
        => /\ Len(calls) = 1
           /\ calls[1].api = "tabs.query" /\ calls[1].url = GivenMatches
           /\ calls[1].state = "pending" => ops[1].state = "pending"
           /\ calls[1].state = "fulfilled" =>
                 /\ ops[1].state = "fulfilled"
                 /\ \E picked \in SUBSET (1..Len(ReturnedTabs)) :
                       /\ \A i \in picked :
                             /\ ReturnedTabs[i].id # Undefined
                             /\ ReturnedTabs[i].url # Undefined
                             /\ ~Excluded(ReturnedTabs[i])
                       /\ \A i \in 1..Len(ReturnedTabs) :
                             (/\ ReturnedTabs[i].id # Undefined /\ ReturnedTabs[i].id[1] # 0
                              /\ ReturnedTabs[i].url # Undefined
                              /\ ~Excluded(ReturnedTabs[i])) => i \in picked
                       /\ ops[1].value = Some(IdsAt(ReturnedTabs, picked))

\* of the two tabs returned, the second matches the exclusion pattern
C18_Witness ==
    /\ Called("getTabsByUrl") /\ GivenMatches = <<Pattern("*", "*")>>
    /\ GivenExcludeMatches = Some(<<Pattern("http", "*")>>)
    /\ calls # <<>> /\ calls[1].state = "fulfilled"
    /\ ReturnedTabs = <<Tab(Some(1), Some(Url("https", "example.com"))),
                        Tab(Some(2), Some(Url("http", "no-way.example.com")))>>
    /\ ops[1].value = Some(<<1>>)

(***************************************************************************)
(* C19. getTabsByUrl drops a returned tab only if it has no id, has no     *)
(* url, or matches an exclusion pattern: the id of every returned tab that *)
(* has an id, whatever its value, and a url that is not excluded is in the *)
(* result.                                                                 *)
(***************************************************************************)
C19_DropsOnlyForThreeReasons ==
    (Called("getTabsByUrl") /\ calls # <<>> /\ calls[1].state = "fulfilled") =>
        \A i \in 1..Len(ReturnedTabs) :
            (/\ ReturnedTabs[i].id # Undefined
             /\ ReturnedTabs[i].url # Undefined
             /\ ~Excluded(ReturnedTabs[i]))
                => \E n \in 1..Len(ops[1].value[1]) : ops[1].value[1][n] = ReturnedTabs[i].id[1]

(***************************************************************************)
(* C20. isScriptableUrl returns false for every URL that does not begin    *)
(* with http:// or https://: for no URL at all, and for a URL of another   *)
(* scheme even if its text starts with the letters http.                   *)
(***************************************************************************)
GivenUrl == ops[1].args[1]

\* the text begins with http:// or https://
HasHttpScheme(url) ==
    /\ url # Undefined
    /\ \/ Len(url[1]) >= 2 /\ SubSeq(url[1], 1, 2) = <<"http", "://">>
       \/ Len(url[1]) >= 3 /\ SubSeq(url[1], 1, 3) = <<"http", "s", "://">>

C20_OtherSchemesNotScriptable ==
    (Called("isScriptableUrl") /\ ~HasHttpScheme(GivenUrl)) => ops[1].value = Some(FALSE)

(***************************************************************************)
(* C21. For a URL that begins with http:// or https://, isScriptableUrl    *)
(* returns false if and only if the text after the scheme starts with a    *)
(* deny-listed prefix, and true otherwise; the answer is a function of the *)
(* URL text alone.                                                         *)
(***************************************************************************)
\* what follows the scheme of a URL that begins with http:// or https://
AfterScheme(url) ==
    IF url[1][2] = "://" THEN SubSeq(url[1], 3, Len(url[1])) ELSE SubSeq(url[1], 4, Len(url[1]))

DenyListed(url) ==
    AfterScheme(url) # <<>> /\ AfterScheme(url)[1] \in blockedPrefixes

C21_DenyListDecides ==
    (Called("isScriptableUrl") /\ HasHttpScheme(GivenUrl))
        => ops[1].value = Some(~DenyListed(GivenUrl))

\* a secure URL of a deny-listed origin was refused
C21_Witness ==
    /\ Called("isScriptableUrl")
    /\ HasHttpScheme(GivenUrl)
    /\ GivenUrl[1][2] = "s"
    /\ DenyListed(GivenUrl)
    /\ ops[1].value = Some(FALSE)

(***************************************************************************)
(* C22. Target resolution. castAllFramesTarget maps a bare tab id to that  *)
(* tab with no frame and allFrames true, and an explicit target to the     *)
(* same tab and frame with allFrames false, so its result has allFrames    *)
(* true if and only if frameId is absent. castTarget maps a bare tab id to *)
(* frame 0 of that tab and returns an explicit target unchanged.           *)
(***************************************************************************)
CastGiven == ops[1].args[1]
CastResult == ops[1].value[1]

C22_TargetResolution ==
    /\ Called("castAllFramesTarget") =>
          /\ CastResult.tabId = CastGiven.tabId
          /\ CastGiven.type = "number" =>
                CastResult.frameId = Undefined /\ CastResult.allFrames = TRUE
          /\ CastGiven.type = "object" =>
                CastResult.frameId = CastGiven.frameId /\ CastResult.allFrames = FALSE
          /\ CastResult.allFrames <=> CastResult.frameId = Undefined
    /\ Called("castTarget") =>
          /\ CastResult.tabId = CastGiven.tabId
          /\ CastGiven.type = "number" => CastResult.frameId = Some(0)
          /\ CastGiven.type = "object" => CastResult.frameId = CastGiven.frameId

\* an explicit target naming frame 0 was resolved to that frame alone
C22_Witness ==
    /\ Called("castAllFramesTarget")
    /\ CastGiven.type = "object"
    /\ CastGiven.frameId = Some(0)
    /\ CastResult.frameId = Some(0)
    /\ CastResult.allFrames = FALSE

(***************************************************************************)
(* C23. Deduplication keeps the first occurrence and preserves order.      *)
(* Within one injectContentScript and for each target, the lists are taken *)
(* in bundle order, css before js within a bundle: what the browser is     *)
(* handed for a list is that list's entries in the list's order, without   *)
(* the paths named earlier in the list or in an earlier list. A path is    *)
(* therefore handed over only for the first bundle and kind naming it,     *)
(* and never as js when it was first named as css.                         *)
(***************************************************************************)
\* the entries among the first i of list n that are to be injected, in order
RECURSIVE DueUpTo(_, _)
DueUpTo(n, i) ==
    IF i = 0 THEN <<>>
    ELSE IF First(n, i)
    THEN Append(DueUpTo(n, i - 1),
                [code |-> IsCode(GivenList(n)[i]), value |-> GivenList(n)[i].value])
    ELSE DueUpTo(n, i - 1)

Due(n) == DueUpTo(n, Len(GivenList(n)))

\* the list an activation injects: css for insertCSS, js for executeScript
ListOfTask(t) == 2 * tasks[t].bundle - (IF tasks[t].fn = "insertCSS" THEN 1 ELSE 0)

C23_CarriesDueEntries ==
    Called("injectContentScript") =>
        /\ \A k \in 1..Len(calls) :
              /\ calls[k].task \in 1..Len(tasks)
              /\ \E pos \in 1..Len(tasks[calls[k].task].executions) :
                    tasks[calls[k].task].executions[pos] = k
        /\ \A t \in 1..Len(tasks) :
              LET due == Due(ListOfTask(t))
                  mine == tasks[t].executions
              IN  /\ \A pos \in 1..Len(mine) : pos > 1 => mine[pos - 1] < mine[pos]
                  /\ IF tasks[t].fn = "executeScript" /\ gotScripting
                     THEN \A pos \in 1..Len(mine) :
                            calls[mine[pos]].files
                                = Some([i \in 1..Len(due) |-> due[i].value])
                     ELSE /\ Len(mine) <= Len(due)
                          /\ \A pos \in 1..Len(mine) : Carries(calls[mine[pos]], due[pos])

C23_FirstOccurrenceInOrder == []C23_CarriesDueEntries

\* a path named as css by the first bundle and as js by the second: one
\* stylesheet insertion per target and no script
C23_Witness ==
    /\ Called("injectContentScript") /\ AllFulfilled
    /\ Len(GivenScripts) = 2 /\ Len(GivenTargets) = 2
    /\ NamesPath(ListOf(GivenScripts[1], 1), "a")
    /\ NamesPath(ListOf(GivenScripts[2], 2), "a")
    /\ \A j \in 1..2 :
          /\ Cardinality(Submissions(j, "a")) = 1
          /\ \A x \in Submissions(j, "a") :
                IsInsertion(x[1]) /\ tasks[calls[x[1]].task].bundle = 1

(***************************************************************************)
(* C24. Legacy executeScript: the host calls are handed over in the order  *)
(* of the caller's list, one per normalized source, and once every host    *)
(* call has fulfilled there is exactly one call for each normalized source *)
(* and the returned promise is resolved.                                   *)
(***************************************************************************)
C24_LegacyOnePerSourceInOrder ==
    (Called("executeScript") /\ ~gotScripting) =>
        /\ Len(calls) <= Len(Kept(GivenFiles))
        /\ \A k \in 1..Len(calls) :
              /\ calls[k].api = "tabs.executeScript"
              /\ Carries(calls[k], Kept(GivenFiles)[k])
        /\ AllFulfilled =>
              Len(calls) = Len(Kept(GivenFiles)) /\ ops[1].state = "fulfilled"

\* [b.js, code, a.js]: three fulfilled calls in that order
C24_Witness ==
    /\ Called("executeScript") /\ ~gotScripting
    /\ Len(GivenFiles) = 3 /\ Len(calls) = 3 /\ AllFulfilled
    /\ calls[1].file = Some("b") /\ calls[2].code # Undefined /\ calls[3].file = Some("a")
    /\ ops[1].state = "fulfilled"

(***************************************************************************)
(* C25. The deduplication set is call-scoped. Of two or more calls of      *)
(* injectContentScript, executeScript or insertCSS that name the same path *)
(* for the same target, one after the other or interleaved, each hands the *)
(* browser that path exactly once: a path injected by one call is never    *)
(* left out of another.                                                    *)
(***************************************************************************)
\* the lists of sources operation o was given
ListsGiven(o) ==
    IF ops[o].fn = "injectContentScript"
    THEN LET scripts == Listed(ops[o].args[2])
         IN  {ListOf(scripts[b], 1) : b \in 1..Len(scripts)}
                \cup {ListOf(scripts[b], 2) : b \in 1..Len(scripts)}
    ELSE {ops[o].args[1].files}

PathsGiven(o) == {path \in {"a", "b"} : \E list \in ListsGiven(o) : NamesPath(list, path)}

\* host call k was made for operation o
MadeFor(k, o) == tasks[calls[k].task].op = o

\* the places where operation o handed the browser the path
SubmissionsOf(o, path) ==
    {<<k, 0>> : k \in {h \in 1..Len(calls) :
        /\ MadeFor(h, o)
        /\ \/ calls[h].file = Some(path)
           \/ calls[h].api = "scripting.insertCSS" /\ calls[h].files = Some(<<path>>)}}
    \cup UNION {{<<k, i>> : i \in {h \in 1..Len(calls[k].files[1]) : calls[k].files[1][h] = path}} :
                   k \in {h \in 1..Len(calls) :
                            MadeFor(h, o) /\ calls[h].api = "scripting.executeScript"}}

C25_DeduplicationCallScoped ==
    \A o \in 1..Len(ops) :
        ops[o].fn \in {"injectContentScript", "executeScript", "insertCSS"} =>
            \A path \in PathsGiven(o) : Cardinality(SubmissionsOf(o, path)) = 1

\* a second injectContentScript naming a.js for tab 1 while the call of the
\* first is still pending, and a.js handed over by both
C25_Witness ==
    /\ Len(ops) = 2
    /\ ops[1].fn = "injectContentScript" /\ ops[2].fn = "injectContentScript"
    /\ ops[1].state = "pending"
    /\ Cardinality(SubmissionsOf(1, "a")) = 1
    /\ Cardinality(SubmissionsOf(2, "a")) = 1
    /\ \A x \in SubmissionsOf(1, "a") : calls[x[1]].state = "pending"

(***************************************************************************)
(* C26. With ignoreTargetErrors unset, the promise returned by insertCSS,  *)
(* executeScript or injectContentScript is resolved only once every host   *)
(* call made for the operation has fulfilled: never while one of them is   *)
(* pending or has rejected.                                                *)
(***************************************************************************)
OptionsGiven(o) == ops[o].args[Len(ops[o].args)]

C26_ResolvedOnlyAfterAllFulfilled ==
    \A o \in 1..Len(ops) :
        (/\ ops[o].fn \in {"injectContentScript", "executeScript", "insertCSS"}
         /\ ~Truthy(OptionsGiven(o).ignoreTargetErrors)
         /\ ops[o].state = "fulfilled")
            => \A k \in 1..Len(calls) : MadeFor(k, o) => calls[k].state = "fulfilled"

\* legacy executeScript of [a.js, code, b.js] resolved after its three calls
C26_Witness ==
    /\ Called("executeScript") /\ ~gotScripting
    /\ ~Truthy(GivenOptions.ignoreTargetErrors)
    /\ Len(calls) = 3 /\ calls[2].code # Undefined
    /\ AllFulfilled
    /\ ops[1].state = "fulfilled"

(***************************************************************************)
(* C27. If every host call settles in the end, the promise returned by     *)
(* executeScript, insertCSS, executeFunction, injectContentScript and      *)
(* getTabsByUrl settles in the end. An operation is suspended at host      *)
(* calls only (the legacy wait of inline code is a wait for a host call):  *)
(* while its promise is pending, one of its host calls is pending.         *)
(***************************************************************************)
C27_SuspendedAtHostCallsOnly ==
    (ops # <<>> /\ ops[1].state = "pending") =>
        \E k \in 1..Len(calls) : calls[k].state = "pending"

C27_EveryPromiseSettles ==
    /\ []C27_SuspendedAtHostCallsOnly
    /\ (ops # <<>>) ~> (ops # <<>> /\ ops[1].state # "pending")

\* legacy [a.js, code]: the code waited for a.js, its own call was rejected
\* and the promise with it
C27_Witness ==
    /\ Called("executeScript") /\ ~gotScripting
    /\ Len(calls) = 2
    /\ calls[1].state = "fulfilled"
    /\ calls[2].code # Undefined /\ calls[2].state = "rejected"
    /\ ops[1].state = "rejected"

(***************************************************************************)
(* C28. Legacy executeScript: when the host call that an inline-code entry *)
(* waits for has rejected, executeScript is rejected with the error of     *)
(* that call, and neither the inline-code entry nor any later entry of the *)
(* list is ever handed to the browser. The host calls made before are left *)
(* as they are, to settle in their own time, and no source is handed over  *)
(* twice: nothing is retried.                                              *)
(***************************************************************************)
\* entry i of the normalized list is inline code waiting for a call that
\* has rejected
C28_WaitFailed(i) ==
    /\ i >= 2 /\ i - 1 <= Len(calls)
    /\ Kept(GivenFiles)[i].code
    /\ calls[i - 1].state = "rejected"

C28_NothingAfterFailedWait ==
    (Called("executeScript") /\ ~gotScripting) =>
        /\ Len(calls) <= Len(Kept(GivenFiles))
        /\ \A k \in 1..Len(calls) : Carries(calls[k], Kept(GivenFiles)[k])
        /\ \A i \in 1..Len(Kept(GivenFiles)) :
              C28_WaitFailed(i) =>
                  /\ Len(calls) = i - 1
                  /\ ops[1].state = "rejected"
                  /\ ops[1].error = calls[i - 1].error

\* a host call once made stays, and changes only by settling
C28_LeftToComplete ==
    /\ Len(calls') >= Len(calls)
    /\ \A k \in 1..Len(calls) :
          \/ calls'[k] = calls[k]
          \/ /\ calls[k].state = "pending"
             /\ calls'[k] = [calls[k] EXCEPT !.state = calls'[k].state,
                                              !.error = calls'[k].error]

C28_FailedWaitEndsTheList ==
    /\ []C28_NothingAfterFailedWait
    /\ [][(ops # <<>> /\ ops[1].fn = "executeScript" /\ ~gotScripting)
            => C28_LeftToComplete]_vars

\* [a.js, b.js, code]: b.js was rejected, the code is not handed over, and
\* a.js has been fulfilled
C28_Witness ==
    /\ Called("executeScript") /\ ~gotScripting
    /\ Len(Kept(GivenFiles)) = 3 /\ Kept(GivenFiles)[3].code
    /\ Len(calls) = 2
    /\ calls[1].state = "fulfilled" /\ calls[2].state = "rejected"
    /\ ops[1].state = "rejected" /\ ops[1].error = calls[2].error

(***************************************************************************)
(* C29. injectContentScript makes no host call for the css or the js list  *)
(* of a bundle when that list is absent, empty, or left empty once the     *)
(* paths named earlier are taken out; in particular, under the modern      *)
(* capability it never hands the browser a script batch with no file.      *)
(***************************************************************************)
\* list n still holds an entry to inject
HoldsEntry(n) == \E i \in 1..Len(GivenList(n)) : First(n, i)

C29_CallsForHeldEntries ==
    Called("injectContentScript") =>
        /\ \A k \in 1..Len(calls) :
              /\ HoldsEntry(ListOfTask(calls[k].task))
              /\ calls[k].api = "scripting.executeScript" =>
                    calls[k].files # Undefined /\ calls[k].files # Some(<<>>)
        /\ \A t \in 1..Len(tasks) : HoldsEntry(ListOfTask(t))

C29_NoCallForEmptyList == []C29_CallsForHeldEntries

\* modern capability, one bundle naming a.js as css and as js: the js list
\* is left empty, and the stylesheet insertion is the only host call
C29_Witness ==
    /\ Called("injectContentScript") /\ gotScripting
    /\ Len(GivenScripts) = 1 /\ Len(GivenTargets) = 1
    /\ ListOf(GivenScripts[1], 1) = <<StringSource("a")>>
    /\ ListOf(GivenScripts[1], 2) = <<StringSource("a")>>
    /\ Len(calls) = 1 /\ calls[1].api = "scripting.insertCSS"
    /\ ops[1].state = "fulfilled"

(***************************************************************************)
(* C30. Under the modern capability no host call of insertCSS or           *)
(* executeScript carries both a frame list and a defined allFrames flag:   *)
(* the frame list is there exactly when a frameId was given, and it names  *)
(* that frame; allFrames is passed on only when no frameId was given.      *)
(***************************************************************************)
GivenDetails == ops[1].args[1]

C30_FramesOrAllFrames ==
    ((Called("insertCSS") \/ Called("executeScript")) /\ gotScripting) =>
        \A k \in 1..Len(calls) :
            /\ calls[k].api \in {"scripting.insertCSS", "scripting.executeScript"}
            /\ calls[k].frameId = Undefined
            /\ ~(calls[k].frameIds # Undefined /\ calls[k].allFrames # Undefined)
            /\ IF GivenDetails.frameId # Undefined
               THEN /\ calls[k].frameIds = Some(<<GivenDetails.frameId[1]>>)
                    /\ calls[k].allFrames = Undefined
               ELSE /\ calls[k].frameIds = Undefined
                    /\ calls[k].allFrames = GivenDetails.allFrames

\* executeScript given frame 0 together with allFrames: true
C30_Witness ==
    /\ Called("executeScript") /\ gotScripting
    /\ GivenDetails.frameId = Some(0) /\ GivenDetails.allFrames = Some(TRUE)
    /\ Len(calls) = 1
    /\ calls[1].frameIds = Some(<<0>>) /\ calls[1].allFrames = Undefined

(***************************************************************************)
(* C31. In injectContentScript the frames of every host call are decided   *)
(* by the shape of the target alone: every frame of the tab when the       *)
(* target is a bare tab id, the named frame and no other when the target   *)
(* is explicit. No option of the bundle, in either spelling, changes it.   *)
(***************************************************************************)
\* host call k asks for every frame of the tab
C31_EveryFrame(k) ==
    /\ calls[k].allFrames = Some(TRUE)
    /\ calls[k].frameId = Undefined
    /\ calls[k].frameIds = Undefined

\* host call k asks for the frame f alone
C31_FrameAlone(k, f) ==
    IF gotScripting
    THEN /\ calls[k].frameIds = Some(<<f>>)
         /\ calls[k].allFrames = Undefined
         /\ calls[k].frameId = Undefined
    ELSE /\ calls[k].frameId = Some(f)
         /\ calls[k].allFrames = Some(FALSE)
         /\ calls[k].frameIds = Undefined

C32_Frame == IF GivenTarget.type = "number" THEN 0 ELSE GivenTarget.frameId[1]

C32_NeverRejects ==
    Called("canAccessTab") =>
        /\ ops[1].state # "rejected"
        /\ Len(calls) = 1
        /\ calls[1].tabId = GivenTarget.tabId
        /\ IF gotScripting
           THEN /\ calls[1].api = "scripting.executeScript"
                /\ calls[1].frameIds = Some(<<C32_Frame>>)
                /\ calls[1].func # Undefined
           ELSE /\ calls[1].api = "tabs.executeScript"
                /\ calls[1].frameId = Some(C32_Frame)
                /\ calls[1].code # Undefined
        /\ calls[1].state = "pending" => ops[1].state = "pending"
        /\ calls[1].state = "fulfilled" =>
              ops[1].state = "fulfilled" /\ ops[1].value = Some(TRUE)
        /\ calls[1].state = "rejected" =>
              ops[1].state = "fulfilled" /\ ops[1].value = Some(FALSE)

\* a bare tab id whose frame 0 the browser refused to run code in
C32_Witness ==
    /\ Called("canAccessTab")
    /\ GivenTarget.type = "number"
    /\ Len(calls) = 1
    /\ calls[1].state = "rejected" /\ calls[1].error = Some(CannotAccess)
    /\ ops[1].state = "fulfilled" /\ ops[1].value = Some(FALSE)

====
